---- MODULE Spec2Model ----
(***************************************************************************)
(* Eventstream: the Event Table and its mutation algebra (construction,    *)
(* index_events, _soft_delete, add_custom_col, to_dataframe,               *)
(* append_eventstream, _join_eventstream), modelled from                   *)
(* retentioneering/eventstream/eventstream.py.                             *)
(*                                                                         *)
(* A table is a record [columns, rows]: columns is the set of column       *)
(* names of the DataFrame, rows the sequence of its rows in storage order, *)
(* each row a function from columns to values.  Missing values are NaN     *)
(* for numeric columns and NaS for string columns.                         *)
(***************************************************************************)
EXTENDS Integers, Sequences, FiniteSets, TLC

\* ------------------------------------------------------------------ bounds
MaxId == 3
MaxRaw == 2
MaxRows == 4
MaxDel == 2
MaxCalls == 3
MaxConstructs == 1

\* ------------------------------------------------------------ value spaces
NaN == 0 - 1
NaS == "NaN"
NoneType == "None"

Streams == {"s1", "s2", "s3"}
NoStream == "none"

\* ------------------------------------------------------- program constants
RAW_COL_PREFIX == "raw_"
DELETE_COL_NAME == "_deleted"
DEFAULT_INDEX_ORDER ==
    << "profile", "path_start", "new_user", "existing_user", "cropped_left",
       "session_start", "session_start_cropped", "group_alias", "raw",
       "raw_sleep", NoneType, "synthetic", "synthetic_sleep",
       "positive_target", "negative_target", "session_end_cropped",
       "session_end", "session_sleep", "cropped_right", "absent_user",
       "lost_user", "path_end" >>

\* -------------------------------------------------------------- sequences
Range(s) == {s[i] : i \in 1 .. Len(s)}

RECURSIVE SelectIdx(_, _, _)
\* the subsequence of s at the positions i (ascending) with keep[i]
SelectIdx(s, keep, i) ==
    IF i > Len(s) THEN << >>
    ELSE (IF keep[i] THEN << s[i] >> ELSE << >>) \o SelectIdx(s, keep, i + 1)

Filter(s, P(_)) == SelectIdx(s, [i \in 1 .. Len(s) |-> P(s[i])], 1)

RECURSIVE Dedupe(_)
\* the distinct elements of s in the order of their first appearance
Dedupe(s) ==
    IF s = << >> THEN << >>
    ELSE LET d == Dedupe(SubSeq(s, 1, Len(s) - 1))
         IN IF s[Len(s)] \in Range(d) THEN d ELSE Append(d, s[Len(s)])

RECURSIVE FlattenSeq(_)
FlattenSeq(ss) == IF ss = << >> THEN << >> ELSE Head(ss) \o FlattenSeq(Tail(ss))

\* ---------------------------------------------------------------- columns
\* EventstreamSchema with its default column names
SchemaCols == {"event_id", "event_type", "event_index", "event_name",
               "event_timestamp", "user_id"}
\* the column names a raw input may carry, and their names after the
\* "raw_" prefix is put in front (f"raw_{col}")
Prefixed == [event |-> "raw_event", timestamp |-> "raw_timestamp",
             user_id |-> "raw_user_id", event_type |-> "raw_event_type",
             ref |-> "raw_ref", cc |-> "raw_cc",
             event_id |-> "raw_event_id", event_index |-> "raw_event_index",
             event_name |-> "raw_event_name",
             event_timestamp |-> "raw_event_timestamp",
             ref_0 |-> "raw_ref_0", ref_1 |-> "raw_ref_1",
             ref_2 |-> "raw_ref_2"]
             @@ ("_point" :> "raw__point")
RawInputCols == DOMAIN Prefixed
\* col.startswith(RAW_COL_PREFIX)
StartsWithRaw(col) == \E c \in RawInputCols : Prefixed[c] = col
\* f"ref_{i}" for relation slot i (0-based)
RefCol(i) == CASE i = 0 -> "ref_0" [] i = 1 -> "ref_1" [] OTHER -> "ref_2"
\* col.startswith("ref_")
StartsWithRef(col) == col \in {"ref_0", "ref_1", "ref_2"}
CustomColNames == {"cc"}

StrCols == {"event_name", "event_type", "event", "timestamp",
            "raw_event", "raw_timestamp", "raw_event_type", "raw_event_name"}
\* the missing-value marker of a column
Missing(col) == IF col \in StrCols THEN NaS
                ELSE IF col = DELETE_COL_NAME THEN FALSE ELSE NaN

\* ----------------------------------------------------------------- tables
EmptyTable == [columns |-> {}, rows |-> << >>]
NRows(t) == Len(t.rows)
\* df[col] = value  (a scalar broadcast over all rows, new or overwritten)
SetCol(t, col, v) ==
    [columns |-> t.columns \cup {col},
     rows |-> [i \in 1 .. Len(t.rows) |->
                 [c \in t.columns \cup {col} |->
                     IF c = col THEN v ELSE t.rows[i][c]]]]
\* df[col] = f(row)  (a column computed row by row)
MapCol(t, col, f(_)) ==
    [columns |-> t.columns \cup {col},
     rows |-> [i \in 1 .. Len(t.rows) |->
                 [c \in t.columns \cup {col} |->
                     IF c = col THEN f(t.rows[i]) ELSE t.rows[i][c]]]]
\* pd.DataFrame(events, columns=cols): the named columns, a column the
\* frame lacks is all missing
Project(t, cols) ==
    [columns |-> cols,
     rows |-> [i \in 1 .. Len(t.rows) |->
                 [c \in cols |-> IF c \in t.columns THEN t.rows[i][c]
                                 ELSE Missing(c)]]]
\* pd.concat of frames: union of the columns, rows in the given order
Concat(ts) ==
    LET cols == UNION {ts[i].columns : i \in 1 .. Len(ts)}
    IN [columns |-> cols,
        rows |-> FlattenSeq([i \in 1 .. Len(ts) |-> Project(ts[i], cols).rows])]

\* ------------------------------------------------------------------ schema
\* EventstreamSchema.get_cols(): the system columns and the custom columns
GetCols(custom_cols) == SchemaCols \cup Range(custom_cols)
\* EventstreamSchema.is_equal: same role names (always the defaults here)
\* and the same set of custom columns
IsEqual(cc1, cc2) == Range(cc1) = Range(cc2)

\* ---------------------------------------------------------------- streams
NoEventstream == [live |-> FALSE, events |-> EmptyTable,
                  custom_cols |-> << >>, relations |-> << >>]

\* Eventstream._get_raw_cols
GetRawCols(events) == {c \in events.columns : StartsWithRaw(c)}
\* Eventstream._get_relation_cols
GetRelationCols(events) == {c \in events.columns : StartsWithRef(c)}
\* the last element of _get_relation_cols(): the columns are met in the
\* frame's column order, in which ref_i columns stand by ascending i
LastRelationCol(events) ==
    IF "ref_2" \in events.columns THEN "ref_2"
    ELSE IF "ref_1" \in events.columns THEN "ref_1" ELSE "ref_0"

\* a faulty priority, for comparison: an unlisted type ranks first, not last
GetEventPriorityUnlistedFirst(event_type) ==
    IF \E i \in 1 .. Len(DEFAULT_INDEX_ORDER) : DEFAULT_INDEX_ORDER[i] = event_type
    THEN (CHOOSE i \in 1 .. Len(DEFAULT_INDEX_ORDER) :
             DEFAULT_INDEX_ORDER[i] = event_type) - 1
    ELSE 0
\* Eventstream.__get_event_priority
GetEventPriority(event_type) ==
    IF \E i \in 1 .. Len(DEFAULT_INDEX_ORDER) : DEFAULT_INDEX_ORDER[i] = event_type
    THEN (CHOOSE i \in 1 .. Len(DEFAULT_INDEX_ORDER) :
             /\ DEFAULT_INDEX_ORDER[i] = event_type
             /\ \A j \in 1 .. i - 1 : DEFAULT_INDEX_ORDER[j] # event_type) - 1
    ELSE Len(DEFAULT_INDEX_ORDER)

\* a faulty comparison, for comparison: a sort that is not stable, moving a
\* row in front of the rows it ties with
SortsBeforeTiesFirst(a, b) ==
    LET ta == a["event_timestamp"]
        tb == b["event_timestamp"]
    IN \/ ta # NaN /\ (tb = NaN \/ ta < tb)
       \/ ta = tb /\ a["order"] <= b["order"]

\* the comparison sort_values([event_timestamp, "order"]) sorts by:
\* timestamp ascending with missing timestamps last, then order ascending
SortsBefore(a, b) ==
    LET ta == a["event_timestamp"]
        tb == b["event_timestamp"]
    IN \/ ta # NaN /\ (tb = NaN \/ ta < tb)
       \/ ta = tb /\ a["order"] < b["order"]

RECURSIVE InsertRow(_, _)
\* r put into the sorted sequence s behind every row it does not sort before
InsertRow(s, r) ==
    IF s = << >> THEN << r >>
    ELSE IF SortsBefore(r, Head(s)) THEN << r >> \o s
    ELSE << Head(s) >> \o InsertRow(Tail(s), r)

RECURSIVE SortValues(_)
\* DataFrame.sort_values on two keys (a stable lexsort)
SortValues(s) ==
    IF s = << >> THEN << >>
    ELSE InsertRow(SortValues(SubSeq(s, 1, Len(s) - 1)), s[Len(s)])

\* Eventstream.index_events
IndexEvents(events) ==
    LET indexed == MapCol(events, "order",
                          LAMBDA r : GetEventPriority(r["event_type"]))
        sorted == SortValues(indexed.rows)
        cols == events.columns \cup {"event_index"}
    IN [columns |-> cols,
        rows |-> [i \in 1 .. Len(sorted) |->
                    [c \in cols |-> IF c = "event_index" THEN i - 1
                                    ELSE sorted[i][c]]]]

\* a faulty filter, for comparison: every row passes
GetNotDeletedEventsKeepsAll(events) == events
\* Eventstream.__get_not_deleted_events
GetNotDeletedEvents(events) ==
    [columns |-> events.columns,
     rows |-> Filter(events.rows, LAMBDA r : r[DELETE_COL_NAME] = FALSE)]

\* a faulty to_dataframe, for comparison: the relation columns are left out
ToDataframeNoRelationCols(es, raw_cols, show_deleted) ==
    LET cols == GetCols(es.custom_cols)
                \cup (IF raw_cols THEN GetRawCols(es.events) ELSE {})
                \cup (IF show_deleted THEN {DELETE_COL_NAME} ELSE {})
        events == IF show_deleted THEN es.events
                  ELSE GetNotDeletedEvents(es.events)
    IN Project(events, cols)
\* Eventstream.to_dataframe (copy does not change the returned content)
ToDataframe(es, raw_cols, show_deleted) ==
    LET cols == GetCols(es.custom_cols) \cup GetRelationCols(es.events)
                \cup (IF raw_cols THEN GetRawCols(es.events) ELSE {})
                \cup (IF show_deleted THEN {DELETE_COL_NAME} ELSE {})
        events == IF show_deleted THEN es.events
                  ELSE GetNotDeletedEvents(es.events)
    IN Project(events, cols)

\* a faulty to_dataframe, for comparison: the filtered table is stored back
\* (self.__events = self.__get_not_deleted_events())
AfterToDataframeStoresFiltered(es, raw_cols, show_deleted, copy) ==
    IF show_deleted THEN es
    ELSE [es EXCEPT !.events = GetNotDeletedEvents(es.events)]
\* the receiver after to_dataframe: cols is a new list (get_cols() + ...),
\* the filter builds a new frame and pd.DataFrame(events, columns=cols,
\* copy=copy) a new object; no statement assigns to self or its table
AfterToDataframe(es, raw_cols, show_deleted, copy) == es

\* a faulty cleanup, for comparison: only a missing event_name drops a row
RequiredCleanupNameOnly(events) ==
    [columns |-> events.columns,
     rows |-> Filter(events.rows, LAMBDA r : r["event_name"] # NaS)]
\* Eventstream.__required_cleanup: dropna on the three mandatory columns
RequiredCleanup(events) ==
    [columns |-> events.columns,
     rows |-> Filter(events.rows,
                     LAMBDA r : /\ r["event_name"] # NaS
                                /\ r["event_timestamp"] # NaN
                                /\ r["user_id"] # NaN)]

\* ----------------------------------------------------------- construction
\* pd.to_datetime on the raw timestamp strings (instants as minutes)
ToDatetime(v) ==
    CASE v = "2022-01-01 00:01:00" -> 1
      [] v = "2022-01-01 00:02:00" -> 2
      [] OTHER -> NaN

\* pd.to_datetime on the column col of a frame: the strings of a raw
\* timestamp column are parsed, the datetimes of an event_timestamp column
\* (a frame taken from to_dataframe) stay as they are
ToDatetimeCol(col, v) == IF col = "event_timestamp" THEN v ELSE ToDatetime(v)

\* events.rename(lambda col: f"raw_{col}", axis="columns")
RenameRaw(raw_data) ==
    LET cols == {Prefixed[c] : c \in raw_data.columns}
    IN [columns |-> cols,
        rows |-> [i \in 1 .. Len(raw_data.rows) |->
                    [c \in cols |->
                        raw_data.rows[i][CHOOSE d \in raw_data.columns :
                                            Prefixed[d] = c]]]]

\* RawDataSchema as __init__ builds it when none is passed: the default
\* names, event_type declared only if the raw data has that column
DefaultRawDataSchema(raw_data) ==
    [event_name |-> "event", event_timestamp |-> "timestamp",
     user_id |-> "user_id",
     event_type |-> IF "event_type" \in raw_data.columns THEN "event_type"
                    ELSE NoneType,
     custom_cols |-> << >>]

\* the custom columns raw_data_schema declares (custom_col_schema["custom_col"])
DeclaredCustomCols(rds) ==
    [i \in 1 .. Len(rds.custom_cols) |-> rds.custom_cols[i].custom_col]
\* schema.custom_cols after __prepare_events: each declared custom column
\* is appended unless the schema names it already
PreparedCustomCols(custom_cols, rds) ==
    custom_cols \o Filter(Dedupe(DeclaredCustomCols(rds)),
                          LAMBDA c : c \notin Range(custom_cols))

\* the raw columns __prepare_events fetches with __get_col_from_raw_data, in
\* the order it fetches them
FetchedCols(rds) ==
    << rds.event_name, rds.event_timestamp, rds.user_id >>
        \o (IF rds.event_type # NoneType THEN << rds.event_type >> ELSE << >>)
        \o [i \in 1 .. Len(rds.custom_cols) |-> rds.custom_cols[i].raw_data_col]
NoError == [kind |-> "none", message |-> "", column |-> ""]
\* a faulty check, for comparison: the error names the event_name column
\* whichever column is absent
PrepareErrorNamesEventName(raw_data, rds, relations) ==
    IF \E i \in 1 .. Len(FetchedCols(rds)) : FetchedCols(rds)[i] \notin raw_data.columns
    THEN [kind |-> "ValueError", message |-> "invalid raw data. Column does not exists!",
          column |-> rds.event_name]
    ELSE IF \E i \in 1 .. Len(relations) :
               /\ relations[i].raw_col # NoneType
               /\ relations[i].raw_col \notin raw_data.columns
    THEN [kind |-> "KeyError", message |-> "", column |-> "ref"]
    ELSE NoError
\* the exception __prepare_events ends with: the ValueError of
\* __get_col_from_raw_data for the first fetched column raw_data lacks, else
\* the KeyError of raw_data[relation["raw_col"]] for a relation column it
\* lacks, else none
PrepareError(raw_data, rds, relations) ==
    LET absent == Filter(FetchedCols(rds), LAMBDA c : c \notin raw_data.columns)
        absent_rel == Filter(relations,
                             LAMBDA rel : /\ rel.raw_col # NoneType
                                          /\ rel.raw_col \notin raw_data.columns)
    IN IF absent # << >>
       THEN [kind |-> "ValueError", message |-> "invalid raw data. Column does not exists!",
             column |-> absent[1]]
       ELSE IF absent_rel # << >>
       THEN [kind |-> "KeyError", message |-> "", column |-> absent_rel[1].raw_col]
       ELSE NoError

\* Eventstream.__prepare_events; ids[i] is the uuid4() drawn for row i
PrepareEvents(raw_data, rds, custom_cols, relations, ids) ==
    LET renamed == RenameRaw(raw_data)
        refcols == {RefCol(i - 1) : i \in 1 .. Len(relations)}
        declared == DeclaredCustomCols(rds)
        cols == renamed.columns \cup {DELETE_COL_NAME} \cup Range(custom_cols)
                \cup Range(declared)
                \cup (SchemaCols \ {"event_index"}) \cup refcols
        Val(i, c) ==
            LET raw == raw_data.rows[i]
            IN CASE c = DELETE_COL_NAME -> FALSE
                 [] c = "event_id" -> ids[i]
                 [] c = "event_name" -> raw[rds.event_name]
                 [] c = "event_timestamp" ->
                        ToDatetimeCol(rds.event_timestamp, raw[rds.event_timestamp])
                 [] c = "user_id" -> raw[rds.user_id]
                 [] c = "event_type" ->
                        IF rds.event_type # NoneType THEN raw[rds.event_type]
                        ELSE "raw"
                 [] c \in Range(declared) ->
                        raw[rds.custom_cols[CHOOSE k \in 1 .. Len(declared) :
                              /\ declared[k] = c
                              /\ \A j \in k + 1 .. Len(declared) : declared[j] # c
                            ].raw_data_col]
                 [] c \in refcols ->
                        LET rel == relations[CHOOSE k \in 1 .. Len(relations) :
                                                RefCol(k - 1) = c]
                        IN IF rel.raw_col # NoneType THEN raw[rel.raw_col]
                           ELSE NaN
                 [] c \in renamed.columns -> renamed.rows[i][c]
                 [] OTHER -> Missing(c)
    IN [columns |-> cols,
        rows |-> [i \in 1 .. Len(raw_data.rows) |-> [c \in cols |-> Val(i, c)]]]

\* Eventstream.__init__ with prepare=True and the raw_data_schema rds
NewEventstreamWith(raw_data, rds, custom_cols, relations, ids) ==
    [live |-> TRUE,
     events |-> IndexEvents(RequiredCleanup(
                   PrepareEvents(raw_data, rds, custom_cols, relations, ids))),
     custom_cols |-> PreparedCustomCols(custom_cols, rds),
     relations |-> relations]

\* Eventstream.__init__ with prepare=True and no raw_data_schema
NewEventstream(raw_data, custom_cols, relations, ids) ==
    NewEventstreamWith(raw_data, DefaultRawDataSchema(raw_data), custom_cols,
                       relations, ids)

\* the warnings __required_cleanup emits: one naming the number of rows it
\* removed, if that number is positive
CleanupWarnings(events) ==
    LET removed_rows == NRows(events) - NRows(RequiredCleanup(events))
    IN IF removed_rows > 0 THEN << removed_rows >> ELSE << >>

\* the caller's raw_data frame after Eventstream.__init__: with prepare=True
\* __prepare_events works on raw_data.copy(); with prepare=False raw_data
\* itself is self.__events, so dropna(inplace=True) removes its rows and
\* index_events sets its "order" column before sort_values builds a new frame
RawDataAfterInit(raw_data, prepare) ==
    IF prepare THEN raw_data
    ELSE MapCol(RequiredCleanup(raw_data), "order",
                LAMBDA r : GetEventPriority(r["event_type"]))

\* Eventstream.__init__ with prepare=False: raw_data is taken as the table
NewEventstreamUnprepared(raw_data, custom_cols, relations) ==
    [live |-> TRUE,
     events |-> IndexEvents(RequiredCleanup(raw_data)),
     custom_cols |-> custom_cols,
     relations |-> relations]

\* Eventstream.copy
CopyEventstream(es) ==
    NewEventstreamUnprepared(es.events, es.custom_cols, es.relations)

\* ------------------------------------------------------------------ merges
\* the row of a side that has no partner in an outer or left merge
AllMissing(cols) == [c \in cols |-> IF c = DELETE_COL_NAME THEN TRUE
                                    ELSE Missing(c)]

\* pd.merge(left, right, left_on, right_on, how="outer", indicator=True)
\* with sort=False: the key groups in the order of first appearance, left
\* keys first; a merged row is the pair of its left row x and right row y.
\* A missing _deleted reads TRUE once cast by astype("bool").
OuterMerge(left, right, left_on, right_on) ==
    LET lkeys == [i \in 1 .. Len(left.rows) |-> left.rows[i][left_on]]
        rkeys == [i \in 1 .. Len(right.rows) |-> right.rows[i][right_on]]
        keys == Dedupe(lkeys \o rkeys)
        Group(k) ==
            LET ls == Filter(left.rows, LAMBDA r : r[left_on] = k)
                rs == Filter(right.rows, LAMBDA r : r[right_on] = k)
            IN IF ls # << >> /\ rs # << >>
               THEN FlattenSeq([i \in 1 .. Len(ls) |->
                       [j \in 1 .. Len(rs) |->
                           [x |-> ls[i], y |-> rs[j], merge |-> "both"]]])
               ELSE IF ls # << >>
               THEN [i \in 1 .. Len(ls) |->
                       [x |-> ls[i], y |-> AllMissing(right.columns),
                        merge |-> "left_only"]]
               ELSE [j \in 1 .. Len(rs) |->
                       [x |-> AllMissing(left.columns), y |-> rs[j],
                        merge |-> "right_only"]]
    IN FlattenSeq([i \in 1 .. Len(keys) |-> Group(keys[i])])

\* utils.get_merged_col(df, colname, suffix) on a merged row p: the column
\* colname + suffix when the merge suffixed it (it stands on both sides),
\* else the one unsuffixed column colname (the shared join key, or a
\* column only one side has)
GetMergedCol(p, colname, suffix, lcols, rcols, on) ==
    IF colname = on
    THEN (IF p.merge = "right_only" THEN p.y[colname] ELSE p.x[colname])
    ELSE IF colname \in lcols /\ colname \in rcols
    THEN (IF suffix = "_x" THEN p.x[colname] ELSE p.y[colname])
    ELSE IF colname \in lcols THEN p.x[colname]
    ELSE p.y[colname]

\* a result part: one row per merged row of part, each column resolved by Val
ResultPart(part, cols, Val(_, _)) ==
    [columns |-> cols,
     rows |-> [i \in 1 .. Len(part) |-> [c \in cols |-> Val(part[i], c)]]]

\* a faulty result_right_part, for comparison: the deleted flag comes from
\* the "_x" (self) side
AppendRightColDeletedFromLeft(p, c, lcols, rcols) ==
    GetMergedCol(p, c, IF c = DELETE_COL_NAME THEN "_x" ELSE "_y",
                 lcols, rcols, "event_id")
\* append_eventstream, a column of result_right_part: every column and the
\* deleted flag come from the "_y" (argument) side
AppendRightCol(p, c, lcols, rcols) ==
    GetMergedCol(p, c, "_y", lcols, rcols, "event_id")

\* Eventstream.append_eventstream up to the concat: the table before the
\* closing index_events
AppendConcat(self, other) ==
    LET curr_events == ToDataframe(self, TRUE, TRUE)
        new_events == ToDataframe(other, TRUE, TRUE)
        merged_events == OuterMerge(curr_events, new_events, "event_id", "event_id")
        left_only == Filter(merged_events, LAMBDA p : p.merge = "left_only")
        both_events == Filter(merged_events, LAMBDA p : p.merge = "both")
        right_only == Filter(merged_events, LAMBDA p : p.merge = "right_only")
        both_events_deleted ==
            Filter(both_events, LAMBDA p : p.x[DELETE_COL_NAME] /\ p.y[DELETE_COL_NAME])
        both_events_deleted_left ==
            Filter(both_events, LAMBDA p : p.x[DELETE_COL_NAME] /\ ~p.y[DELETE_COL_NAME])
        both_events_deleted_right ==
            Filter(both_events, LAMBDA p : ~p.x[DELETE_COL_NAME] /\ p.y[DELETE_COL_NAME])
        both_events_not_deleted ==
            Filter(both_events, LAMBDA p : ~p.x[DELETE_COL_NAME] /\ ~p.y[DELETE_COL_NAME])
        right_events == right_only \o both_events_deleted_left \o both_events_not_deleted
        left_events == left_only \o both_events_deleted_right
        left_raw_cols == GetRawCols(self.events)
        right_raw_cols == GetRawCols(other.events)
        cols == GetCols(self.custom_cols)
        Merged(p, c, suffix) ==
            GetMergedCol(p, c, suffix, curr_events.columns, new_events.columns, "event_id")
        result_left_part ==
            ResultPart(left_events, cols \cup left_raw_cols \cup {DELETE_COL_NAME},
                       LAMBDA p, c : Merged(p, c, "_x"))
        result_both_part ==
            ResultPart(both_events_deleted, cols \cup left_raw_cols \cup {DELETE_COL_NAME},
                       LAMBDA p, c : Merged(p, c, "_x"))
        result_right_part ==
            ResultPart(right_events, cols \cup right_raw_cols \cup {DELETE_COL_NAME},
                       LAMBDA p, c : AppendRightCol(p, c, curr_events.columns,
                                                    new_events.columns))
    IN Concat(<< result_left_part, result_both_part, result_right_part >>)

\* Eventstream.append_eventstream, past the schema check
AppendEventstream(self, other) ==
    [self EXCEPT !.events = IndexEvents(AppendConcat(self, other))]

\* utils.list.find_index(eventstream.relations, rel["eventstream"] == self):
\* the 0-based slot of the first relation naming self, or -1
FindRelation(relations, self_name) ==
    IF \E i \in 1 .. Len(relations) : relations[i].eventstream = self_name
    THEN (CHOOSE i \in 1 .. Len(relations) :
             /\ relations[i].eventstream = self_name
             /\ \A j \in 1 .. i - 1 : relations[j].eventstream # self_name) - 1
    ELSE 0 - 1
\* rel["eventstream"] of the lookup's condition raises a KeyError on a
\* relation that has no such key; the lookup reaches that relation if none
\* before it names self
RelationKeyError(relations, self_name) ==
    \E i \in 1 .. Len(relations) :
        /\ "eventstream" \notin DOMAIN relations[i]
        /\ \A j \in 1 .. i - 1 :
              /\ "eventstream" \in DOMAIN relations[j]
              /\ relations[j].eventstream # self_name

\* a faulty right_events, for comparison: every merged row without a partner
\* in self, whether its relation column is null or not
JoinRightEventsAllRightOnly(merged_events, not_related_events_ids) ==
    Filter(merged_events, LAMBDA p : p.merge = "right_only")
\* _join_eventstream, right_events: the merged rows whose event_id on the
\* joined side is the id of a joined row with a null relation column
JoinRightEvents(merged_events, not_related_events_ids) ==
    Filter(merged_events, LAMBDA p : p.y["event_id"] \in not_related_events_ids)

\* a faulty result_both_part, for comparison: the deleted flag stays self's
JoinBothColKeepsDeleted(p, c, left_raw_cols, lcols, rcols) ==
    IF c = "event_id" \/ c \in left_raw_cols \/ c = DELETE_COL_NAME
    THEN GetMergedCol(p, c, "_x", lcols, rcols, "")
    ELSE GetMergedCol(p, c, "_y", lcols, rcols, "")
\* _join_eventstream, a column of result_both_part: the columns of the
\* schema and the deleted flag from the joined side ("_y"), then the raw
\* columns of self and the event_id from self ("_x")
JoinBothCol(p, c, left_raw_cols, lcols, rcols) ==
    IF c = "event_id" \/ c \in left_raw_cols
    THEN GetMergedCol(p, c, "_x", lcols, rcols, "")
    ELSE GetMergedCol(p, c, "_y", lcols, rcols, "")

\* Eventstream._join_eventstream up to the concat
JoinConcat(self, other, relation_i) ==
    LET relation_col_name == RefCol(relation_i)
        curr_events == ToDataframe(self, TRUE, TRUE)
        joined_events == ToDataframe(other, TRUE, TRUE)
        not_related_events ==
            Filter(joined_events.rows, LAMBDA r : r[relation_col_name] = NaN)
        not_related_events_ids ==
            {not_related_events[i]["event_id"] : i \in 1 .. Len(not_related_events)}
        merged_events ==
            OuterMerge(curr_events, joined_events, "event_id", relation_col_name)
        left_events == Filter(merged_events, LAMBDA p : p.merge = "left_only")
        both_events == Filter(merged_events, LAMBDA p : p.merge = "both")
        right_events == JoinRightEvents(merged_events, not_related_events_ids)
        left_raw_cols == GetRawCols(self.events)
        right_raw_cols == GetRawCols(other.events)
        cols == GetCols(self.custom_cols) \cup GetCols(other.custom_cols)
        Merged(p, c, suffix) ==
            GetMergedCol(p, c, suffix, curr_events.columns, joined_events.columns, "")
        result_left_part ==
            ResultPart(left_events, cols \cup left_raw_cols \cup {DELETE_COL_NAME},
                       LAMBDA p, c : Merged(p, c, "_x"))
        result_right_part ==
            ResultPart(right_events, cols \cup right_raw_cols \cup {DELETE_COL_NAME},
                       LAMBDA p, c : Merged(p, c, "_y"))
        result_both_part ==
            ResultPart(both_events, cols \cup left_raw_cols \cup {DELETE_COL_NAME},
                       LAMBDA p, c : JoinBothCol(p, c, left_raw_cols,
                                                 curr_events.columns,
                                                 joined_events.columns))
    IN Concat(<< result_left_part, result_right_part, result_both_part >>)

\* Eventstream._get_both_custom_cols without the sets: one list after the other
GetBothCustomColsConcat(cc1, cc2) == cc1 \o cc2
\* Eventstream._get_both_custom_cols: list(set union), here in a fixed order
GetBothCustomCols(cc1, cc2) == Dedupe(cc1 \o cc2)

\* Eventstream._join_eventstream, past its checks
JoinEventstream(self, other, relation_i) ==
    [self EXCEPT !.events = IndexEvents(JoinConcat(self, other, relation_i)),
                 !.custom_cols = GetBothCustomCols(self.custom_cols, other.custom_cols)]

\* ------------------------------------------------------------- soft delete
\* merged["_deleted_y"] == True of pd.merge(left=events, right=deleted_events,
\* left_on=left_on, right_on=event_id, how="left"): per left row in order one
\* merged row for each deleted_events row it matches (True), or a single
\* unmatched one (NaN); deleted_ids are the event_id values of deleted_events
LeftMergeDeleted(events, left_on, deleted_ids) ==
    FlattenSeq([i \in 1 .. Len(events.rows) |->
        LET ms == Filter(deleted_ids, LAMBDA d : d = events.rows[i][left_on])
        IN IF ms = << >> THEN << FALSE >> ELSE [j \in 1 .. Len(ms) |-> TRUE]])

\* a faulty update, for comparison: the flag is overwritten, not or-ed
OrDeletedOverwrites(events, flags) ==
    [columns |-> events.columns,
     rows |-> [i \in 1 .. Len(events.rows) |->
                 [events.rows[i] EXCEPT ![DELETE_COL_NAME] = flags[i]]]]
\* self.__events[_deleted] = self.__events[_deleted] | merged[_deleted_y] == True,
\* the two operands aligned on the positional index
OrDeleted(events, flags) ==
    [columns |-> events.columns,
     rows |-> [i \in 1 .. Len(events.rows) |->
                 [events.rows[i] EXCEPT ![DELETE_COL_NAME] = @ \/ flags[i]]]]

\* Eventstream._soft_delete
SoftDelete(es, deleted_ids) ==
    LET merged == LeftMergeDeleted(es.events, "event_id", deleted_ids)
        step1 == OrDeleted(es.events, merged)
    IN IF GetRelationCols(es.events) # {}
       THEN LET merged2 == LeftMergeDeleted(step1, LastRelationCol(es.events),
                                            deleted_ids)
            IN [es EXCEPT !.events = OrDeleted(step1, merged2)]
       ELSE [es EXCEPT !.events = step1]

\* Eventstream.add_custom_col; data is None or a Series holding one value
AddCustomCol(es, name, data) ==
    [es EXCEPT !.custom_cols = Append(es.custom_cols, name),
               !.events = SetCol(es.events, name, data)]

\* ------------------------------------------------------------------ inputs
\* raw rows that miss a mandatory field: the name, the timestamp, the user
NullRows ==
    { [event |-> NaS, timestamp |-> "2022-01-01 00:01:00", user_id |-> 2,
       event_type |-> "my_type"],
      [event |-> "b", timestamp |-> NaS, user_id |-> 2,
       event_type |-> "my_type"],
      [event |-> "b", timestamp |-> "2022-01-01 00:01:00", user_id |-> NaN,
       event_type |-> "my_type"] }
\* the raw rows a caller passes when it builds a stream from raw data
RawRows ==
    { [event |-> "a", timestamp |-> "2022-01-01 00:02:00", user_id |-> 1,
       event_type |-> "raw"],
      [event |-> "b", timestamp |-> "2022-01-01 00:01:00", user_id |-> 2,
       event_type |-> "my_type"] }
        \cup NullRows
\* the rows a data processor puts out, before their ref column is set
ProcessorRows ==
    { [event |-> "c", timestamp |-> "2022-01-01 00:02:00", user_id |-> 1,
       event_type |-> "my_type"],
      [event |-> "d", timestamp |-> "2022-01-01 00:02:00", user_id |-> 1,
       event_type |-> "path_start"] }
\* a raw row with the "ref" column a processor adds
WithRef(r, ref) ==
    [c \in DOMAIN r \cup {"ref"} |-> IF c = "ref" THEN ref ELSE r[c]]
SeqsUpTo(S, n) == UNION {[1 .. k -> S] : k \in 0 .. n}
\* raw data of at most MaxRaw rows without a ref column
RawTables ==
    {[columns |-> {"event", "timestamp", "user_id", "event_type"}, rows |-> rs] :
        rs \in SeqsUpTo(RawRows, MaxRaw)}
\* raw data of at most MaxRaw rows whose ref column is null or one of refs
RawTablesWithRef(refs) ==
    {[columns |-> {"event", "timestamp", "user_id", "event_type", "ref"},
      rows |-> rs] :
        rs \in SeqsUpTo({WithRef(r, ref) : r \in ProcessorRows, ref \in refs \cup {NaN}},
                        MaxRaw)}

\* a frame without its column col
DropCol(t, col) ==
    [columns |-> t.columns \ {col},
     rows |-> [i \in 1 .. Len(t.rows) |->
                 [c \in t.columns \ {col} |-> t.rows[i][c]]]]
\* frames of a processor that may carry a column cc and may lack a column
AnyRawTables(refs) ==
    {LET full == IF with_cc THEN SetCol(base, "cc", 1) ELSE base
     IN IF drop = NoneType THEN full ELSE DropCol(full, drop) :
        base \in RawTablesWithRef(refs), with_cc \in BOOLEAN,
        drop \in (RawInputCols \ {"cc"}) \cup {NoneType}}
\* the raw_data_schema arguments a caller passes: one that leaves event_type
\* undeclared, one that declares it, and one that declares the custom
\* column cc as well
RawDataSchemas ==
    LET declared == [event_name |-> "event", event_timestamp |-> "timestamp",
                     user_id |-> "user_id", event_type |-> "event_type",
                     custom_cols |-> << >>]
    IN { [declared EXCEPT !.event_type = NoneType],
         declared,
         [declared EXCEPT !.custom_cols =
             << [raw_data_col |-> "cc", custom_col |-> "cc"] >>] }

\* ------------------------------------------------------------------- state
VARIABLES
    streams,    \* the Eventstream objects, by name
    next_id,    \* the number of event ids uuid4() has handed out
    calls,      \* the number of calls made so far
    last,       \* the last call: its name, receiver, argument and outcome
                \* (the error raised, the warnings emitted, the caller's
                \* raw_data frame as the call left it), and the streams as
                \* they were before it
    graph       \* the preprocessing graph: its nodes by pk, the parents of
                \* each, and what each cached output was computed from

vars == << streams, next_id, calls, last, graph >>

\* the pks of the nodes of a graph; n0 is its root
NodePks == {"n0", "n1", "n2"}
NoNode == [name |-> "none", pk |-> "", description |-> NoneType,
           processor |-> << >>, events |-> NoStream]
\* no graph has been built
NoGraph == [nodes |-> [n \in NodePks |-> NoNode],
            parents |-> [n \in NodePks |-> << >>],
            cache_key |-> [n \in NodePks |-> << >>],
            computed_with |-> [n \in NodePks |-> << >>]]

Call(op, self, other, ok, arg) ==
    [op |-> op, self |-> self, other |-> other, ok |-> ok, arg |-> arg,
     pre |-> streams, error |-> NoError, warnings |-> << >>,
     raw_data |-> EmptyTable]

\* a run makes at most MaxCalls calls on its streams, which leave the
\* graph alone
Tick == calls < MaxCalls /\ calls' = calls + 1 /\ UNCHANGED graph

\* the ids uuid4() hands out to the n rows of a new table
FreshIds(n) == [i \in 1 .. n |-> next_id + i]

\* s1 = Eventstream(raw_data) has been built from some raw data
Init ==
    /\ \E raw_data \in RawTables :
          /\ streams = [s \in Streams |->
                IF s = "s1"
                THEN NewEventstream(raw_data, << >>, << >>,
                                    [i \in 1 .. NRows(raw_data) |-> i])
                ELSE NoEventstream]
          /\ next_id = NRows(raw_data)
          /\ last = [op |-> "construct", self |-> "s1", other |-> NoStream,
                     ok |-> TRUE,
                     arg |-> << raw_data, DefaultRawDataSchema(raw_data), TRUE >>,
                     pre |-> [s \in Streams |-> NoEventstream],
                     error |-> NoError,
                     warnings |-> CleanupWarnings(PrepareEvents(
                         raw_data, DefaultRawDataSchema(raw_data), << >>, << >>,
                         [i \in 1 .. NRows(raw_data) |-> i])),
                     raw_data |-> RawDataAfterInit(raw_data, TRUE)]
    /\ calls = 0
    /\ graph = NoGraph

Live == {s \in Streams : streams[s].live}
\* the event ids of a table
EventIds(events) == {events.rows[i]["event_id"] : i \in 1 .. Len(events.rows)}

\* s = Eventstream(raw_data, raw_data_schema,
\*                 relations=[{"raw_col": "ref", "eventstream": p}])
\* for one of the given inputs (raw_data, raw_data_schema): a stream derived
\* from p, as a data processor builds it. The ids drawn by a construction
\* that fails are never seen and are not counted.
ConstructFrom(s, p, inputs) ==
    /\ Tick
    /\ ~streams[s].live
    /\ streams[p].live
    /\ \E input \in inputs :
          LET raw_data == input.raw_data
              rds == input.rds
              relations == << [raw_col |-> "ref", eventstream |-> p] >>
              error == PrepareError(raw_data, rds, relations)
              call == Call("construct", s, p, error = NoError,
                           << raw_data, rds, TRUE >>)
          IN /\ next_id + NRows(raw_data) <= MaxId
             /\ IF error # NoError
                THEN /\ last' = [call EXCEPT !.error = error,
                                             !.raw_data = raw_data]
                     /\ UNCHANGED << streams, next_id >>
                ELSE /\ streams' = [streams EXCEPT ![s] =
                           NewEventstreamWith(raw_data, rds, << >>, relations,
                                              FreshIds(NRows(raw_data)))]
                     /\ next_id' = next_id + NRows(raw_data)
                     /\ last' = [call EXCEPT
                           !.warnings = CleanupWarnings(PrepareEvents(
                               raw_data, rds, << >>, relations,
                               FreshIds(NRows(raw_data)))),
                           !.raw_data = RawDataAfterInit(raw_data, TRUE)]

\* a frame that carries the given custom columns
WithCustomCols(t, custom_cols) ==
    [columns |-> t.columns \cup Range(custom_cols),
     rows |-> [i \in 1 .. Len(t.rows) |->
                 [c \in t.columns \cup Range(custom_cols) |->
                     IF c \in t.columns THEN t.rows[i][c] ELSE 1]]]
\* a raw_data_schema that declares the given custom columns, each read
\* from the raw column of its name
DeclaringCustomCols(rds, custom_cols) ==
    [rds EXCEPT !.custom_cols =
        [i \in 1 .. Len(Dedupe(custom_cols)) |->
            [raw_data_col |-> Dedupe(custom_cols)[i],
             custom_col |-> Dedupe(custom_cols)[i]]]]

\* the construction of a derived stream from a processor's frame, with no
\* raw_data_schema passed or with one that declares the custom columns of
\* the stream the frame was taken from
ConstructChild(s, p) ==
    /\ streams[p].live
    /\ ConstructFrom(s, p,
          {[raw_data |-> t, rds |-> DefaultRawDataSchema(t)] :
              t \in RawTablesWithRef(1 .. next_id)}
          \cup {[raw_data |-> WithCustomCols(t, streams[p].custom_cols),
                 rds |-> DeclaringCustomCols(DefaultRawDataSchema(t),
                                             streams[p].custom_cols)] :
                    t \in RawTablesWithRef(1 .. next_id)})

\* the construction of a derived stream from any frame: one that may carry
\* a column cc and may lack one of its columns, with any raw_data_schema
ConstructAny(s, p) ==
    /\ calls < MaxConstructs
    /\ UNCHANGED graph
    /\ ConstructFrom(s, p, {[raw_data |-> t, rds |-> rds] :
                               t \in AnyRawTables(1 .. next_id),
                               rds \in RawDataSchemas})

\* d = Eventstream(raw_data, schema=s.schema.copy(), prepare=False,
\*                 relations=s.relations.copy()), raw_data a frame the caller
\* took from s.to_dataframe(raw_cols=True, show_deleted=True) and in which
\* it may have blanked the user_id of one row
ConstructUnprepared(s, d) ==
    /\ Tick
    /\ streams[s].live
    /\ ~streams[d].live
    /\ \E blank \in 0 .. NRows(streams[s].events) :
          LET view == ToDataframe(streams[s], TRUE, TRUE)
              raw_data == IF blank = 0 THEN view
                          ELSE [view EXCEPT !.rows[blank]["user_id"] = NaN]
          IN /\ streams' = [streams EXCEPT ![d] =
                   NewEventstreamUnprepared(raw_data, streams[s].custom_cols,
                                            streams[s].relations)]
             /\ last' = [Call("construct", d, s, TRUE,
                              << raw_data, NoneType, FALSE >>) EXCEPT
                   !.warnings = CleanupWarnings(raw_data),
                   !.raw_data = RawDataAfterInit(raw_data, FALSE)]
    /\ UNCHANGED next_id

\* d = s.copy()
Copy(s, d) ==
    /\ Tick
    /\ streams[s].live
    /\ ~streams[d].live
    /\ streams' = [streams EXCEPT ![d] = CopyEventstream(streams[s])]
    /\ last' = Call("copy", d, s, TRUE, << >>)
    /\ UNCHANGED next_id

\* s._soft_delete(events), events a frame whose event_id column is ids
SoftDeleteCall(s) ==
    /\ Tick
    /\ streams[s].live
    /\ \E ids \in SeqsUpTo(1 .. next_id, MaxDel) :
          /\ streams' = [streams EXCEPT ![s] = SoftDelete(streams[s], ids)]
          /\ last' = Call("soft_delete", s, NoStream, TRUE, ids)
    /\ UNCHANGED next_id

\* s.index_events()
IndexEventsCall(s) ==
    /\ Tick
    /\ streams[s].live
    /\ streams' = [streams EXCEPT ![s].events = IndexEvents(streams[s].events)]
    /\ last' = Call("index_events", s, NoStream, TRUE, << >>)
    /\ UNCHANGED next_id

\* s.add_custom_col(name, data)
AddCustomColCall(s) ==
    /\ Tick
    /\ streams[s].live
    /\ \E name \in CustomColNames, data \in {NaN, 1} :
          /\ streams' = [streams EXCEPT ![s] = AddCustomCol(streams[s], name, data)]
          /\ last' = Call("add_custom_col", s, NoStream, TRUE, << data >>)
    /\ UNCHANGED next_id

\* s.to_dataframe(raw_cols, show_deleted, copy)
ToDataframeCall(s) ==
    /\ Tick
    /\ streams[s].live
    /\ \E raw_cols, show_deleted, copy \in BOOLEAN :
          /\ streams' = [streams EXCEPT ![s] =
                AfterToDataframe(streams[s], raw_cols, show_deleted, copy)]
          /\ last' = Call("to_dataframe", s, NoStream, TRUE,
                          << raw_cols, show_deleted, copy >>)
    /\ UNCHANGED next_id

\* a faulty store, for comparison: the merged table is written to the
\* argument stream as well
StoreResultInBoth(store, s, o, result) ==
    [store EXCEPT ![s] = result, ![o].events = result.events]
\* the objects append_eventstream and _join_eventstream assign to, at their
\* end: self.__events (and self.schema.custom_cols in the join); the
\* argument is only read, through to_dataframe, _get_raw_cols and its schema
StoreResult(store, s, o, result) == [store EXCEPT ![s] = result]

\* a faulty check, for comparison: append_eventstream never raises
AppendErrorNever(self, other) == NoError
\* the exception append_eventstream raises before it touches anything
AppendError(self, other) ==
    IF ~IsEqual(self.custom_cols, other.custom_cols)
    THEN [kind |-> "ValueError", message |-> "invalid schema: joined eventstream",
          column |-> ""]
    ELSE NoError

\* s.append_eventstream(o)
AppendCall(s, o) ==
    /\ Tick
    /\ streams[s].live /\ streams[o].live /\ s # o
    /\ IF AppendError(streams[s], streams[o]) # NoError
       THEN /\ last' = [Call("append_eventstream", s, o, FALSE, << >>) EXCEPT
                           !.error = AppendError(streams[s], streams[o])]
            /\ UNCHANGED streams
       ELSE /\ NRows(AppendConcat(streams[s], streams[o])) <= MaxRows
            /\ streams' = StoreResult(streams, s, o,
                                      AppendEventstream(streams[s], streams[o]))
            /\ last' = Call("append_eventstream", s, o, TRUE, << >>)
    /\ UNCHANGED next_id

\* a faulty check, for comparison: the relation is looked up before the
\* schemas are compared
JoinErrorRelationFirst(self, other, self_name) ==
    IF RelationKeyError(other.relations, self_name)
    THEN [kind |-> "KeyError", message |-> "eventstream", column |-> ""]
    ELSE IF FindRelation(other.relations, self_name) = 0 - 1
    THEN [kind |-> "ValueError", message |-> "relation not found!", column |-> ""]
    ELSE IF ~IsEqual(self.custom_cols, other.custom_cols)
    THEN [kind |-> "ValueError", message |-> "invalid schema: joined eventstream",
          column |-> ""]
    ELSE NoError
\* the exception _join_eventstream raises before it touches anything: the
\* schema check, then the relation lookup, then the read of the relation
\* column joined_events[relation_col_name]
JoinError(self, other, self_name) ==
    LET relation_i == FindRelation(other.relations, self_name)
    IN IF ~IsEqual(self.custom_cols, other.custom_cols)
       THEN [kind |-> "ValueError", message |-> "invalid schema: joined eventstream",
             column |-> ""]
       ELSE IF RelationKeyError(other.relations, self_name)
       THEN [kind |-> "KeyError", message |-> "eventstream", column |-> ""]
       ELSE IF relation_i = 0 - 1
       THEN [kind |-> "ValueError", message |-> "relation not found!", column |-> ""]
       ELSE IF RefCol(relation_i) \notin other.events.columns
       THEN [kind |-> "KeyError", message |-> "", column |-> RefCol(relation_i)]
       ELSE NoError

\* s._join_eventstream(o)
JoinCall(s, o) ==
    /\ Tick
    /\ streams[s].live /\ streams[o].live /\ s # o
    /\ LET relation_i == FindRelation(streams[o].relations, s)
       IN IF JoinError(streams[s], streams[o], s) # NoError
          THEN /\ last' = [Call("join_eventstream", s, o, FALSE, << >>) EXCEPT
                              !.error = JoinError(streams[s], streams[o], s)]
               /\ UNCHANGED streams
          ELSE /\ NRows(JoinConcat(streams[s], streams[o], relation_i)) <= MaxRows
               /\ streams' = StoreResult(streams, s, o,
                     JoinEventstream(streams[s], streams[o], relation_i))
               /\ last' = Call("join_eventstream", s, o, TRUE, << >>)
    /\ UNCHANGED next_id

\* the streams of a run: s1 is built from raw data, s2 is derived from s1
\* and s3 from s2, each either as a copy or as a processor's output
Parent == [s2 |-> "s1", s3 |-> "s2"]

Next ==
    \/ \E s \in DOMAIN Parent : ConstructChild(s, Parent[s])
    \/ \E d \in DOMAIN Parent : Copy(Parent[d], d)
    \/ \E d \in DOMAIN Parent : ConstructUnprepared(Parent[d], d)
    \/ \E s \in Streams : SoftDeleteCall(s)
    \/ \E s \in Streams : IndexEventsCall(s)
    \/ \E s \in Streams : AddCustomColCall(s)
    \/ \E s \in Streams : ToDataframeCall(s)
    \/ \E s, o \in Streams : AppendCall(s, o)
    \/ \E s, o \in Streams : JoinCall(s, o)

Spec == Init /\ [][Next]_vars

\* the constructions alone, from every kind of frame and raw_data_schema
NextConstruct ==
    \/ \E s \in DOMAIN Parent : ConstructAny(s, Parent[s])
    \/ \E d \in DOMAIN Parent : ConstructUnprepared(Parent[d], d)

SpecConstruct == Init /\ [][NextConstruct]_vars

\* ================================================================ claims
Self == last.self
Other == last.other
\* the receiver and the argument stream as they were before the last call
PreSelf == last.pre[last.self]
PreOther == last.pre[last.other]
PostSelf == streams[last.self]
Did(op) == last.op = op /\ last.ok
RowsOf(es) == es.events.rows
Positions(es) == 1 .. Len(es.events.rows)

\* ------------------------------------------------------------------- C1
\* C1: no two rows of a stream's Event Table carry the same event_id,
\* whatever sequence of construction, copy, _soft_delete, index_events,
\* append_eventstream and _join_eventstream produced the table.
C1_EventIdUnique ==
    \A s \in Streams :
        \A i, j \in Positions(streams[s]) :
            i # j => RowsOf(streams[s])[i]["event_id"] # RowsOf(streams[s])[j]["event_id"]

\* ------------------------------------------------------------------- C2
\* C2: soft-delete monotonicity: a row that is deleted before a call of
\* _soft_delete, index_events, add_custom_col or to_dataframe is the same
\* row, still deleted, after the call.
C2_SoftDeleteMonotonic ==
    (last.op \in {"soft_delete", "index_events", "add_custom_col", "to_dataframe"})
    => /\ Len(RowsOf(PostSelf)) = Len(RowsOf(PreSelf))
       /\ \A i \in Positions(PreSelf) :
             /\ RowsOf(PostSelf)[i]["event_id"] = RowsOf(PreSelf)[i]["event_id"]
             /\ RowsOf(PreSelf)[i][DELETE_COL_NAME] => RowsOf(PostSelf)[i][DELETE_COL_NAME]

\* a _soft_delete call on a stream that had a deleted row before it, and
\* whose argument does not name that row
C2_Witness ==
    /\ Did("soft_delete")
    /\ \E i \in Positions(PreSelf) :
          /\ RowsOf(PreSelf)[i][DELETE_COL_NAME]
          /\ RowsOf(PreSelf)[i]["event_id"] \notin Range(last.arg)
          /\ RowsOf(PostSelf)[i][DELETE_COL_NAME]
    /\ \E i \in Positions(PreSelf) :
          ~RowsOf(PreSelf)[i][DELETE_COL_NAME] /\ RowsOf(PostSelf)[i][DELETE_COL_NAME]

\* ------------------------------------------------------------------- C3
\* priority(t): t's position in index_order, len(index_order) if unlisted
Priority(t) ==
    LET at == {i \in 1 .. Len(DEFAULT_INDEX_ORDER) : DEFAULT_INDEX_ORDER[i] = t}
    IN IF at = {} THEN Len(DEFAULT_INDEX_ORDER)
       ELSE (CHOOSE i \in at : \A j \in at : i <= j) - 1
KeyOf(r) == << r["event_timestamp"], Priority(r["event_type"]) >>
\* ascending by timestamp, then by priority
Ordered(rows) ==
    \A i, j \in 1 .. Len(rows) :
        i < j => \/ KeyOf(rows[i])[1] < KeyOf(rows[j])[1]
                 \/ /\ KeyOf(rows[i])[1] = KeyOf(rows[j])[1]
                    /\ KeyOf(rows[i])[2] <= KeyOf(rows[j])[2]
\* the rows of t with key k, in t's order, read on the columns cols
KeyGroup(t, cols, k) ==
    Filter(Project(t, cols).rows, LAMBDA r : KeyOf(r) = k)
\* post holds the rows of pre (read on cols), and rows with the same key
\* stand in post in the order they have in pre
SameOrderWithinKeys(post, pre, cols) ==
    /\ NRows(post) = NRows(pre)
    /\ \A i \in 1 .. NRows(pre) :
          KeyGroup(post, cols, KeyOf(pre.rows[i])) = KeyGroup(pre, cols, KeyOf(pre.rows[i]))
\* the raw data of the last construction
LastRawData == last.arg[1]
\* its raw_data_schema and its prepare flag
LastRawDataSchema == last.arg[2]
LastPrepare == last.arg[3]
\* the table the last call handed to its closing sort, or, for a call that
\* does not sort, the table it started from
PreSortTable ==
    CASE ~last.ok -> PreSelf.events
      [] last.op = "append_eventstream" -> AppendConcat(PreSelf, PreOther)
      [] last.op = "join_eventstream" ->
            JoinConcat(PreSelf, PreOther, FindRelation(PreOther.relations, Self))
      [] last.op = "copy" -> PreOther.events
      [] last.op = "construct" ->
            IF LastPrepare
            THEN RequiredCleanup(PrepareEvents(
                    LastRawData, LastRawDataSchema,
                    PostSelf.custom_cols, PostSelf.relations,
                    [i \in 1 .. NRows(LastRawData) |->
                        next_id - NRows(LastRawData) + i]))
            ELSE RequiredCleanup(LastRawData)
      [] OTHER -> PreSelf.events
\* the columns on which a row is recognised across the last call
StableCols ==
    PreSortTable.columns
        \ ({"event_index"}
              \cup (IF last.op = "soft_delete" THEN {DELETE_COL_NAME} ELSE {})
              \cup (IF last.op = "add_custom_col" THEN CustomColNames ELSE {}))

\* C3: after construction and after every append_eventstream,
\* _join_eventstream, _soft_delete and add_custom_col (and every other call),
\* every view to_dataframe returns, whatever its flags, is ordered by
\* event_timestamp ascending and, for equal timestamps, by priority ascending;
\* and rows equal on both keys stand in the order they had in the table the
\* call sorted (the table it started from, if it does not sort).
C3_ViewOrdered ==
    /\ \A s \in Live : \A raw_cols, show_deleted \in BOOLEAN :
          Ordered(ToDataframe(streams[s], raw_cols, show_deleted).rows)
    /\ SameOrderWithinKeys(PostSelf.events, PreSortTable, StableCols)

\* a join or append whose closing sort moved a row in front of a row of
\* lower priority at the same timestamp, past two rows equal on both keys
C3_Witness ==
    /\ Did("join_eventstream") \/ Did("append_eventstream")
    /\ Project(PostSelf.events, StableCols).rows # Project(PreSortTable, StableCols).rows
    /\ \E i, j \in Positions(PostSelf) :
          /\ i < j
          /\ KeyOf(RowsOf(PostSelf)[i]) = KeyOf(RowsOf(PostSelf)[j])
          /\ RowsOf(PostSelf)[i]["event_id"] # RowsOf(PostSelf)[j]["event_id"]
    /\ \E i, j \in Positions(PostSelf) :
          /\ KeyOf(RowsOf(PostSelf)[i])[1] = KeyOf(RowsOf(PostSelf)[j])[1]
          /\ KeyOf(RowsOf(PostSelf)[i])[2] < KeyOf(RowsOf(PostSelf)[j])[2]

\* ------------------------------------------------------------ C4, C5, C6
\* every field of a stream's rows: to_dataframe(raw_cols=True,
\* show_deleted=True)
ViewAll(es) == ToDataframe(es, TRUE, TRUE)
\* the fields of an event row: every column but the positional event_index
Fields(t) == t.columns \ {"event_index"}
\* the value of field c in row r; a field the row's table lacks is missing
Read(r, c) == IF c \in DOMAIN r THEN r[c] ELSE Missing(c)
SameOn(r1, r2, cols) == \A c \in cols : Read(r1, c) = Read(r2, c)
\* the relation column of other that the last join went through
JoinRefCol == RefCol(FindRelation(PreOther.relations, Self))
\* the rows of self and of other before the last call, and of self after it
SelfRows == ViewAll(PreSelf).rows
OtherRows == ViewAll(PreOther).rows
ResultRows == ViewAll(PostSelf).rows
\* other's row y references self's row x
Matches(y, x) == y[JoinRefCol] = x["event_id"]

\* C4: lineage join coverage: every row of self that no row of other
\* references through ref_i is in the result of self._join_eventstream(other)
\* with all its fields and its deleted flag unchanged.
C4_UnreferencedRowsUnchanged ==
    Did("join_eventstream") =>
        \A i \in 1 .. Len(SelfRows) :
            (\A j \in 1 .. Len(OtherRows) : ~Matches(OtherRows[j], SelfRows[i]))
            => \E k \in 1 .. Len(ResultRows) :
                  SameOn(ResultRows[k], SelfRows[i], Fields(ViewAll(PreSelf)))

\* C5 as stated: every self row matched by an other row is replaced in the
\* result by a row that carries every value of that other row.
C5_MatchedReplacedEntirely ==
    Did("join_eventstream") =>
        \A i \in 1 .. Len(SelfRows), j \in 1 .. Len(OtherRows) :
            Matches(OtherRows[j], SelfRows[i])
            => \E k \in 1 .. Len(ResultRows) :
                  SameOn(ResultRows[k], OtherRows[j], Fields(ViewAll(PreOther)))

\* the result row of the pair (x of self, y of other): y's values in the
\* schema's columns and y's deleted flag, x's event_id and raw-input values
IsJoinedRow(r, x, y) ==
    /\ r["event_id"] = x["event_id"]
    /\ SameOn(r, y, (GetCols(PreOther.custom_cols) \ {"event_id", "event_index"})
                    \cup {DELETE_COL_NAME})
    /\ SameOn(r, x, GetRawCols(PreSelf.events))

\* C5: in self._join_eventstream(other), every self row x matched by an
\* other row y gives a result row with y's event_name, event_type,
\* event_timestamp, user_id and custom columns and y's deleted flag, under
\* x's event_id and with x's raw-input values; and the result has no other
\* row under x's event_id.
C5_MatchedTakesOtherValues ==
    Did("join_eventstream") =>
        /\ \A i \in 1 .. Len(SelfRows), j \in 1 .. Len(OtherRows) :
              Matches(OtherRows[j], SelfRows[i])
              => \E k \in 1 .. Len(ResultRows) :
                    IsJoinedRow(ResultRows[k], SelfRows[i], OtherRows[j])
        /\ \A k \in 1 .. Len(ResultRows) :
              (\E i \in 1 .. Len(SelfRows), j \in 1 .. Len(OtherRows) :
                  /\ Matches(OtherRows[j], SelfRows[i])
                  /\ SelfRows[i]["event_id"] = ResultRows[k]["event_id"])
              => \E i \in 1 .. Len(SelfRows), j \in 1 .. Len(OtherRows) :
                    /\ Matches(OtherRows[j], SelfRows[i])
                    /\ IsJoinedRow(ResultRows[k], SelfRows[i], OtherRows[j])

\* a join in which a row deleted in self is matched by a row not deleted in
\* other, and is not deleted in the result
C5_Witness ==
    /\ Did("join_eventstream")
    /\ \E i \in 1 .. Len(SelfRows), j \in 1 .. Len(OtherRows), k \in 1 .. Len(ResultRows) :
          /\ Matches(OtherRows[j], SelfRows[i])
          /\ SelfRows[i][DELETE_COL_NAME] /\ ~OtherRows[j][DELETE_COL_NAME]
          /\ IsJoinedRow(ResultRows[k], SelfRows[i], OtherRows[j])
          /\ ~ResultRows[k][DELETE_COL_NAME]

\* other's row y matches no row of self
Unmatched(y) == \A i \in 1 .. Len(SelfRows) : ~Matches(y, SelfRows[i])

\* C6: in self._join_eventstream(other), a row of other that matches no row
\* of self and has a null ref_i is in the result with other's values and
\* other's deleted flag; one whose non-null ref_i names no event_id of self
\* is not: the result has no row under its event_id (unless self had one).
C6_UnmatchedOtherRows ==
    Did("join_eventstream") =>
        \A j \in 1 .. Len(OtherRows) :
            Unmatched(OtherRows[j]) =>
                IF OtherRows[j][JoinRefCol] = NaN
                THEN \E k \in 1 .. Len(ResultRows) :
                        SameOn(ResultRows[k], OtherRows[j], Fields(ViewAll(PreOther)))
                ELSE OtherRows[j]["event_id"] \notin EventIds(PreSelf.events)
                     => OtherRows[j]["event_id"] \notin EventIds(PostSelf.events)

\* a join in which other has a row with a null ref_i, which is appended, and
\* a row whose ref_i names no row of self, which is left out
C6_Witness ==
    /\ Did("join_eventstream")
    /\ \E j \in 1 .. Len(OtherRows) :
          /\ OtherRows[j][JoinRefCol] = NaN
          /\ OtherRows[j]["event_id"] \in EventIds(PostSelf.events)
    /\ \E j \in 1 .. Len(OtherRows) :
          /\ OtherRows[j][JoinRefCol] # NaN
          /\ Unmatched(OtherRows[j])
          /\ OtherRows[j]["event_id"] \notin EventIds(PostSelf.events)

\* ------------------------------------------------------------------- C7
\* the rows of a sequence of rows that carry event_id id
WithId(rows, id) == Filter(rows, LAMBDA r : r["event_id"] = id)
\* the side whose values append_eventstream keeps for an event_id that both
\* sides have: other's if neither row or only self's row is deleted, self's
\* if only other's row or both rows are deleted
AppendKeeps(x, y) ==
    IF y[DELETE_COL_NAME] THEN "self" ELSE "other"

\* C7: after self.append_eventstream(other) the result has exactly one row
\* per event_id of self or other and no further row; a row of one side only
\* is carried over from that side; for an event_id of both sides the result
\* row has other's values if neither row or only self's row is deleted, and
\* self's values if only other's row or both rows are deleted.
C7_AppendSemantics ==
    Did("append_eventstream") =>
        /\ EventIds(PostSelf.events) = EventIds(PreSelf.events) \cup EventIds(PreOther.events)
        /\ \A id \in EventIds(PostSelf.events) :
              /\ Len(WithId(ResultRows, id)) = 1
              /\ LET r == WithId(ResultRows, id)[1]
                     xs == WithId(SelfRows, id)
                     ys == WithId(OtherRows, id)
                 IN /\ ys = << >> =>
                          \E i \in 1 .. Len(xs) : SameOn(r, xs[i], Fields(ViewAll(PreSelf)))
                    /\ xs = << >> =>
                          \E j \in 1 .. Len(ys) : SameOn(r, ys[j], Fields(ViewAll(PreOther)))
                    /\ xs # << >> /\ ys # << >> =>
                          \E i \in 1 .. Len(xs), j \in 1 .. Len(ys) :
                              IF AppendKeeps(xs[i], ys[j]) = "self"
                              THEN SameOn(r, xs[i], Fields(ViewAll(PreSelf)))
                              ELSE SameOn(r, ys[j], Fields(ViewAll(PreOther)))

\* ------------------------------------------------------------------- C8
\* the rows of a table as a bag: each row on its fields, with its count
Content(t) ==
    LET rows == Project(t, Fields(t)).rows
    IN [r \in Range(rows) |-> Cardinality({i \in 1 .. Len(rows) : rows[i] = r})]
SameContent(t1, t2) == Fields(t1) = Fields(t2) /\ Content(t1) = Content(t2)
\* no event_id of both a and b is deleted on one side and not on the other
NoConflictingDeletions(a, b) ==
    \A i \in 1 .. NRows(a.events), j \in 1 .. NRows(b.events) :
        a.events.rows[i]["event_id"] = b.events.rows[j]["event_id"]
        => a.events.rows[i][DELETE_COL_NAME] = b.events.rows[j][DELETE_COL_NAME]
\* the columns append_eventstream copies values of
AppendValueCols(a, b) ==
    (GetCols(a.custom_cols) \ {"event_index"})
        \cup GetRawCols(a.events) \cup GetRawCols(b.events)
\* every event_id of both a and b has the same values on both sides
SameValuesOnShared(a, b) ==
    \A i \in 1 .. NRows(a.events), j \in 1 .. NRows(b.events) :
        a.events.rows[i]["event_id"] = b.events.rows[j]["event_id"]
        => SameOn(a.events.rows[i], b.events.rows[j], AppendValueCols(a, b))
AppendCommutes(a, b) ==
    SameContent(AppendEventstream(a, b).events, AppendEventstream(b, a).events)

\* C8 as stated: two streams with equal schemas and no conflicting deleted
\* flags give tables of the same content whichever is appended to the other.
C8_AppendCommutative ==
    /\ \A a, b \in Live :
          (a # b /\ IsEqual(streams[a].custom_cols, streams[b].custom_cols)
                 /\ NoConflictingDeletions(streams[a], streams[b]))
          => AppendCommutes(streams[a], streams[b])
    /\ (Did("append_eventstream") /\ NoConflictingDeletions(PreSelf, PreOther))
          => SameContent(PostSelf.events, AppendEventstream(PreOther, PreSelf).events)

\* C8: two streams A and B with equal schemas in which every event_id of
\* both sides has the same deleted flag and the same values (in the schema's,
\* the custom and the raw-input columns) on both sides give tables of the
\* same content, the same rows with the same values and deleted flags,
\* whether A.append_eventstream(B) or B.append_eventstream(A) is called.
C8_AppendCommutativeOnAgreeingRows ==
    /\ \A a, b \in Live :
          (a # b /\ IsEqual(streams[a].custom_cols, streams[b].custom_cols)
                 /\ NoConflictingDeletions(streams[a], streams[b])
                 /\ SameValuesOnShared(streams[a], streams[b]))
          => AppendCommutes(streams[a], streams[b])
    /\ (Did("append_eventstream") /\ NoConflictingDeletions(PreSelf, PreOther)
                                  /\ SameValuesOnShared(PreSelf, PreOther))
          => SameContent(PostSelf.events, AppendEventstream(PreOther, PreSelf).events)

\* an append of two streams that share an event_id, on which they agree,
\* while one of them has an event_id the other lacks
C8_Witness ==
    /\ Did("append_eventstream")
    /\ NoConflictingDeletions(PreSelf, PreOther)
    /\ SameValuesOnShared(PreSelf, PreOther)
    /\ EventIds(PreSelf.events) \cap EventIds(PreOther.events) # {}
    /\ EventIds(PreSelf.events) # EventIds(PreOther.events)
    /\ SameContent(PostSelf.events, AppendEventstream(PreOther, PreSelf).events)

\* ------------------------------------------------------------------- C9
\* C9: union merge identity: E.append_eventstream(empty), empty a stream
\* without rows and with E's schema, leaves every view of E (its rows,
\* columns, values and order, whatever the flags) as it was.
C9_AppendEmptyIsIdentity ==
    (Did("append_eventstream") /\ NRows(PreOther.events) = 0) =>
        \A raw_cols, show_deleted \in BOOLEAN :
            ToDataframe(PostSelf, raw_cols, show_deleted)
                = ToDataframe(PreSelf, raw_cols, show_deleted)

\* ------------------------------------------------------------------ C10
\* Eventstream(raw_data=E.to_dataframe(raw_cols=True, show_deleted=True),
\*             schema=E.schema, relations=E.relations, prepare=False)
RoundTrip(es) ==
    NewEventstreamUnprepared(ToDataframe(es, TRUE, TRUE), es.custom_cols,
                             es.relations)
\* the rows of a table as a bag, on all of its columns
RowBag(t) ==
    [r \in Range(t.rows) |-> Cardinality({i \in 1 .. Len(t.rows) : t.rows[i] = r})]

\* C10: round trip: the stream built with prepare=False and E's schema from
\* E.to_dataframe(raw_cols=True, show_deleted=True) has a table with the
\* columns of E's table and the same rows, values and deleted flags, up to
\* the order of the rows.
C10_RoundTrip ==
    \A s \in Live :
        /\ RoundTrip(streams[s]).events.columns = streams[s].events.columns
        /\ RowBag(RoundTrip(streams[s]).events) = RowBag(streams[s].events)

\* to_dataframe on a stream that has a relation column with a reference in
\* it, a deleted row and a row that is not deleted
C10_Witness ==
    /\ Did("to_dataframe")
    /\ \E i, j \in Positions(PostSelf) :
          /\ "ref_0" \in PostSelf.events.columns
          /\ RowsOf(PostSelf)[i]["ref_0"] # NaN
          /\ RowsOf(PostSelf)[i][DELETE_COL_NAME]
          /\ ~RowsOf(PostSelf)[j][DELETE_COL_NAME]
    /\ RowBag(RoundTrip(PostSelf).events) = RowBag(PostSelf.events)

\* ------------------------------------------------------------------ C11
\* the tables index_events is run on: every stream's table, and the unsorted
\* table the last call handed to its closing index_events
IndexedTables == {streams[s].events : s \in Live} \cup {PreSortTable}

\* C11: index_events is idempotent: run twice on a table it yields the same
\* row order and the same event_index values as run once, and event_index
\* is 0 .. n-1 in row order (deleted rows and ties included).
C11_IndexEventsIdempotent ==
    \A t \in IndexedTables :
        LET once == IndexEvents(t)
            twice == IndexEvents(once)
        IN /\ twice = once
           /\ NRows(once) = NRows(t)
           /\ \A i \in 1 .. NRows(once) : once.rows[i]["event_index"] = i - 1

\* index_events called on a table holding a deleted row and two different
\* rows that tie on timestamp and priority
C11_Witness ==
    /\ Did("index_events")
    /\ PostSelf.events = IndexEvents(PreSelf.events)
    /\ \E i \in Positions(PostSelf) : RowsOf(PostSelf)[i][DELETE_COL_NAME]
    /\ \E i, j \in Positions(PostSelf) :
          /\ i < j
          /\ KeyOf(RowsOf(PostSelf)[i]) = KeyOf(RowsOf(PostSelf)[j])
          /\ RowsOf(PostSelf)[i]["event_id"] # RowsOf(PostSelf)[j]["event_id"]

\* ------------------------------------------------------------------ C12
\* row i of the receiver was named by the argument of the last _soft_delete:
\* by its event_id, or, in a table with relation columns, by its value
\* under the last of them
NamedByArg(i) ==
    LET r == RowsOf(PreSelf)[i]
    IN \/ r["event_id"] \in Range(last.arg)
       \/ /\ GetRelationCols(PreSelf.events) # {}
          /\ r[LastRelationCol(PreSelf.events)] \in Range(last.arg)

\* C12: after _soft_delete(events) a row is deleted exactly if it was deleted
\* before, or its event_id is the event_id of a row of events, or the table
\* has relation columns and its value under the last ref_i is the event_id
\* of a row of events (one hop only); no other column, the row count and
\* the row order do not change.
C12_SoftDeleteExact ==
    Did("soft_delete") =>
        /\ Len(RowsOf(PostSelf)) = Len(RowsOf(PreSelf))
        /\ PostSelf.events.columns = PreSelf.events.columns
        /\ \A i \in Positions(PreSelf) :
              /\ \A c \in PreSelf.events.columns \ {DELETE_COL_NAME} :
                    RowsOf(PostSelf)[i][c] = RowsOf(PreSelf)[i][c]
              /\ RowsOf(PostSelf)[i][DELETE_COL_NAME]
                    <=> (RowsOf(PreSelf)[i][DELETE_COL_NAME] \/ NamedByArg(i))

\* ------------------------------------------------------------- C13, C14
\* the flags of the last to_dataframe call and the view it returned
ViewRawCols == last.arg[1]
ViewShowDeleted == last.arg[2]
ViewCopy == last.arg[3]
ReturnedView == ToDataframe(PreSelf, ViewRawCols, ViewShowDeleted)

\* C13: to_dataframe never mutates its source: for every combination of
\* raw_cols, show_deleted and copy, the stream's table, schema and relations
\* (and every other stream) are after the call what they were before it.
C13_ToDataframeReadOnly ==
    Did("to_dataframe") =>
        /\ PostSelf.events = PreSelf.events
        /\ PostSelf.custom_cols = PreSelf.custom_cols
        /\ PostSelf.relations = PreSelf.relations
        /\ streams = last.pre

\* a to_dataframe call that filtered: the stream holds a deleted row and a
\* row that is not deleted, and the view requested leaves the deleted out
C13_Witness ==
    /\ Did("to_dataframe")
    /\ ~ViewShowDeleted /\ ~ViewCopy
    /\ NRows(ReturnedView) > 0
    /\ NRows(ReturnedView) < NRows(PreSelf.events)
    /\ NRows(PostSelf.events) = NRows(PreSelf.events)

\* the k-th smallest member of the set of positions S
KthOf(S, k) == CHOOSE i \in S : Cardinality({j \in S : j <= i}) = k
\* the rows of the table the flags of the last to_dataframe call ask for
ShownPositions ==
    {i \in Positions(PreSelf) :
        ViewShowDeleted \/ ~RowsOf(PreSelf)[i][DELETE_COL_NAME]}
\* the columns the flags ask for: the schema's system and custom columns,
\* the raw-input columns with raw_cols, the deleted flag with show_deleted
RequestedCols ==
    GetCols(PreSelf.custom_cols)
        \cup (IF ViewRawCols THEN GetRawCols(PreSelf.events) ELSE {})
        \cup (IF ViewShowDeleted THEN {DELETE_COL_NAME} ELSE {})
\* the returned view has the columns cols and holds the shown rows of the
\* table, in the table's order, with the table's values
ViewIs(cols) ==
    /\ ReturnedView.columns = cols
    /\ NRows(ReturnedView) = Cardinality(ShownPositions)
    /\ \A k \in 1 .. NRows(ReturnedView) : \A c \in cols :
          ReturnedView.rows[k][c] = Read(RowsOf(PreSelf)[KthOf(ShownPositions, k)], c)

\* C14 as stated: to_dataframe projects to exactly the requested columns,
\* the system and custom columns, plus the raw-input columns only with
\* raw_cols, plus the deleted flag only with show_deleted; its rows are
\* exactly the rows with deleted = false, or all rows with show_deleted.
C14_ViewExactlyRequested ==
    Did("to_dataframe") => ViewIs(RequestedCols)

\* C14, amended: the columns are the system and custom columns and every
\* relation column ref_i of the table, plus the raw-input columns only with
\* raw_cols, plus the deleted flag only with show_deleted; the rows are
\* exactly the rows with deleted = false, or all rows with show_deleted.
C14_ViewRequestedAndRelationCols ==
    Did("to_dataframe") =>
        ViewIs(RequestedCols \cup GetRelationCols(PreSelf.events))

\* a default view (no raw columns, no deleted rows) of a derived stream
\* that holds a relation column, a deleted row and a row not deleted
C14_Witness ==
    /\ Did("to_dataframe")
    /\ ~ViewRawCols /\ ~ViewShowDeleted
    /\ GetRelationCols(PreSelf.events) # {}
    /\ GetRawCols(PreSelf.events) # {}
    /\ NRows(ReturnedView) > 0
    /\ NRows(ReturnedView) < NRows(PreSelf.events)

\* ------------------------------------------------------------------ C15
\* C15: append_eventstream and _join_eventstream write only to self: the
\* argument stream's table, schema (its custom columns included) and
\* relations are after the call what they were before, and so is every
\* third stream.
C15_MergeWritesOnlySelf ==
    (last.op \in {"append_eventstream", "join_eventstream"}) =>
        \A t \in Streams \ {Self} : streams[t] = last.pre[t]

\* a join or append that changed self, with an argument that holds rows and
\* a third stream alive
C15_Witness ==
    /\ Did("append_eventstream") \/ Did("join_eventstream")
    /\ PostSelf.events # PreSelf.events
    /\ NRows(PreOther.events) > 0
    /\ PreOther.events # PostSelf.events
    /\ \E t \in Live \ {Self, Other} : NRows(streams[t].events) > 0

\* ------------------------------------------------------------------ C16
\* C16: constructing an Eventstream has no effect on the input data: the
\* caller's raw_data frame is after the construction what it was before,
\* with prepare=True and with prepare=False, with or without rows that miss
\* mandatory fields.
C16_ConstructLeavesInput ==
    (last.op = "construct") => last.raw_data = LastRawData

\* ------------------------------------------------------------------ C17
\* row i of the raw data of the last construction misses a mandatory field
RawRowIsNull(i) ==
    LET r == LastRawData.rows[i]
    IN IF LastPrepare
       THEN \/ r[LastRawDataSchema.event_name] = NaS
            \/ r[LastRawDataSchema.event_timestamp] = NaS
            \/ r[LastRawDataSchema.user_id] = NaN
       ELSE \/ r["event_name"] = NaS
            \/ r["event_timestamp"] = NaN
            \/ r["user_id"] = NaN
\* the event_id raw row i has in the constructed table
RawRowId(i) ==
    IF LastPrepare THEN next_id - NRows(LastRawData) + i
    ELSE LastRawData.rows[i]["event_id"]
NullRawRows == {i \in 1 .. NRows(LastRawData) : RawRowIsNull(i)}
KeptRawRows == (1 .. NRows(LastRawData)) \ NullRawRows
\* every row of every stream has its three mandatory fields
MandatoryFieldsPresent ==
    \A s \in Live : \A i \in Positions(streams[s]) :
        /\ RowsOf(streams[s])[i]["event_name"] # NaS
        /\ RowsOf(streams[s])[i]["event_timestamp"] # NaN
        /\ RowsOf(streams[s])[i]["user_id"] # NaN

\* C17: construction drops every raw row with a null event_name,
\* event_timestamp or user_id and keeps every other row, and it warns, with
\* the number of rows dropped, exactly when that number is positive;
\* thereafter, after any sequence of soft-deletes, merges and joins, every
\* row of a table has non-null event_name, event_timestamp and user_id.
C17_MandatoryFields ==
    /\ Did("construct") =>
          /\ NRows(PostSelf.events) = Cardinality(KeptRawRows)
          /\ \A id \in 1 .. MaxId :
                Cardinality({i \in Positions(PostSelf) :
                                RowsOf(PostSelf)[i]["event_id"] = id})
                    = Cardinality({i \in KeptRawRows : RawRowId(i) = id})
          /\ last.warnings = IF NullRawRows = {} THEN << >>
                             ELSE << Cardinality(NullRawRows) >>
    /\ MandatoryFieldsPresent

\* a construction that dropped a row and kept another, and warned
C17_Witness ==
    /\ Did("construct")
    /\ NullRawRows # {}
    /\ KeptRawRows # {}
    /\ last.warnings = << Cardinality(NullRawRows) >>
    /\ NRows(PostSelf.events) = Cardinality(KeptRawRows)

\* ------------------------------------------------------------- C18, C19
\* the schemas of self and other differed before the last call
SchemasDiffer == Range(PreSelf.custom_cols) # Range(PreOther.custom_cols)
\* no Relation of other named self (the object itself) before the last call
NoRelationToSelf ==
    \A i \in 1 .. Len(PreOther.relations) :
        PreOther.relations[i].eventstream # Self
\* the last call failed with the given message and left self as it was
FailedWith(message) ==
    /\ ~last.ok
    /\ last.error.kind = "ValueError"
    /\ last.error.message = message
    /\ PostSelf.events = PreSelf.events
    /\ PostSelf.custom_cols = PreSelf.custom_cols

\* C18: _join_eventstream fails with an error and leaves self's table and
\* schema unchanged when the schemas are not equal (checked first), or when
\* no Relation in other.relations has self as its eventstream; a Relation
\* is matched by identity, so one that names a copy of self does not count.
C18_JoinFails ==
    (last.op = "join_eventstream") =>
        /\ SchemasDiffer => FailedWith("invalid schema: joined eventstream")
        /\ (~SchemasDiffer /\ NoRelationToSelf) => FailedWith("relation not found!")

\* a join that failed for want of a relation although other names a stream
\* that is a copy of self, equal to it in table, schema and relations
C18_Witness ==
    /\ last.op = "join_eventstream"
    /\ FailedWith("relation not found!")
    /\ NRows(PreSelf.events) > 0
    /\ \E i \in 1 .. Len(PreOther.relations) :
          LET named == PreOther.relations[i].eventstream
          IN /\ named # Self
             /\ last.pre[named] = PreSelf

\* C19: append_eventstream fails with the schema-mismatch error whenever
\* is_equal is false for the two schemas, and self's table is then exactly
\* what it was before the call.
C19_AppendFails ==
    (last.op = "append_eventstream" /\ SchemasDiffer) =>
        FailedWith("invalid schema: joined eventstream")

\* an append that failed on the schemas, both streams holding rows
C19_Witness ==
    /\ last.op = "append_eventstream"
    /\ SchemasDiffer
    /\ FailedWith("invalid schema: joined eventstream")
    /\ NRows(PreSelf.events) > 0
    /\ NRows(PreOther.events) > 0

\* ------------------------------------------------------------------ C20
\* the raw columns the raw_data_schema of the last construction declares
\* (event_name, event_timestamp, user_id, event_type if given, the raw
\* columns of its custom columns) that the raw data lacks
AbsentDeclaredCols ==
    LET rds == LastRawDataSchema
    IN ({rds.event_name, rds.event_timestamp, rds.user_id}
            \cup (IF rds.event_type # NoneType THEN {rds.event_type} ELSE {})
            \cup {rds.custom_cols[i].raw_data_col : i \in 1 .. Len(rds.custom_cols)})
       \ LastRawData.columns

\* C20: construction with prepare=True fails with a validation error naming
\* the missing column whenever a raw column declared for event_name,
\* event_timestamp, user_id, a declared event_type or a declared custom
\* column is absent from the raw data, and no Eventstream is produced; when
\* no event_type column is declared, every row gets the event_type "raw".
C20_MissingColumnFails ==
    (last.op = "construct" /\ LastPrepare) =>
        /\ AbsentDeclaredCols # {} =>
              /\ ~last.ok
              /\ last.error.kind = "ValueError"
              /\ last.error.column \in AbsentDeclaredCols
              /\ ~PostSelf.live
              /\ streams = last.pre
        /\ (last.ok /\ LastRawDataSchema.event_type = NoneType) =>
              \A i \in Positions(PostSelf) :
                  RowsOf(PostSelf)[i]["event_type"] = "raw"

\* a construction from a frame with rows that failed because the declared
\* custom column is the one column the frame lacks
C20_Witness ==
    /\ last.op = "construct" /\ LastPrepare /\ ~last.ok
    /\ NRows(LastRawData) > 0
    /\ AbsentDeclaredCols = {"cc"}
    /\ last.error.kind = "ValueError"
    /\ last.error.column = "cc"
    /\ ~PostSelf.live

\* ============================================================ user sampling
\* the raw frames sampled have at most MaxSampleRows rows, and a run
\* builds at most MaxSamples streams from its frame
MaxSampleRows == 3
MaxSamples == 2

\* the raw rows of three users and of no user: user 1 has two events
SampleRows ==
    { [event |-> "a", timestamp |-> "2022-01-01 00:01:00", user_id |-> 1,
       event_type |-> "raw"],
      [event |-> "b", timestamp |-> "2022-01-01 00:02:00", user_id |-> 1,
       event_type |-> "raw"],
      [event |-> "a", timestamp |-> "2022-01-01 00:01:00", user_id |-> 2,
       event_type |-> "raw"],
      [event |-> "a", timestamp |-> "2022-01-01 00:01:00", user_id |-> 3,
       event_type |-> "raw"],
      [event |-> "a", timestamp |-> "2022-01-01 00:01:00", user_id |-> NaN,
       event_type |-> "raw"] }
SampleTables ==
    {[columns |-> {"event", "timestamp", "user_id", "event_type"}, rows |-> rs] :
        rs \in SeqsUpTo(SampleRows, MaxSampleRows)}
\* the user_sample_size arguments, by their Python type: an int num, a
\* float num / den (quarters, which floats hold exactly), a str, a bool
SampleSizes ==
    {[type |-> "int", num |-> n, den |-> 1] : n \in {0 - 1, 0, 1, 2, 4}}
        \cup {[type |-> "float", num |-> n, den |-> 4] :
                 n \in {0 - 1, 0, 2, 3, 4, 5}}
        \cup {[type |-> "str", num |-> 2, den |-> 1],
              [type |-> "bool", num |-> 1, den |-> 1]}
\* the user_sample_seed arguments: None, written << >>, or an int in a tuple
SampleSeeds == {<< >>, << 0 >>, << 1 >>}

\* the three checks that open Eventstream.__sample_user_paths
SampleSizeErrorAllowsShareAboveOne(user_sample_size) ==
    IF user_sample_size.type # "float" /\ user_sample_size.type # "int"
    THEN [kind |-> "TypeError",
          message |-> "\"user_sample_size\" has to be a number(float for user share or int for user amount)",
          column |-> ""]
    ELSE IF user_sample_size.num < 0
    THEN [kind |-> "ValueError",
          message |-> "User sample size/share cannot be negative!",
          column |-> ""]
    ELSE NoError
SampleSizeError(user_sample_size) ==
    IF user_sample_size.type # "float" /\ user_sample_size.type # "int"
    THEN [kind |-> "TypeError",
          message |-> "\"user_sample_size\" has to be a number(float for user share or int for user amount)",
          column |-> ""]
    ELSE IF user_sample_size.num < 0
    THEN [kind |-> "ValueError",
          message |-> "User sample size/share cannot be negative!",
          column |-> ""]
    ELSE IF user_sample_size.type = "float"
            /\ user_sample_size.num > user_sample_size.den
    THEN [kind |-> "ValueError",
          message |-> "User sample share cannot exceed 1!",
          column |-> ""]
    ELSE NoError

\* raw_data[user_col_name].unique(): the values of the column in the order
\* of their first appearance, a null value among them
UniqueUsers(raw_data, user_col_name) ==
    Dedupe([i \in 1 .. NRows(raw_data) |-> raw_data.rows[i][user_col_name]])
\* sample_size: the int itself, or int(share * len(unique_users))
SampleSize(user_sample_size, unique_users) ==
    IF user_sample_size.type = "int"
    THEN user_sample_size.num
    ELSE (user_sample_size.num * Len(unique_users)) \div user_sample_size.den
\* np.random.choice(..., replace=False) refuses a sample larger than the
\* population
ChoiceError(unique_users, sample_size) ==
    IF sample_size > Len(unique_users)
    THEN [kind |-> "ValueError",
          message |-> "Cannot take a larger sample than population when 'replace=False'",
          column |-> ""]
    ELSE NoError
\* the states np.random.seed(user_sample_seed) can leave the generator in:
\* one that the seed fixes, or any when no seed is given. The state is the
\* position k at which the draw from a population of n starts.
GeneratorStates(user_sample_seed, n) ==
    IF n = 0 THEN {0}
    ELSE IF user_sample_seed = << >> THEN 0 .. n - 1
    ELSE {user_sample_seed[1] % n}
\* np.random.choice(unique_users, sample_size, replace=False) drawn by a
\* generator in state k
RandomChoice(unique_users, sample_size, k) ==
    {unique_users[((i - 1 + k) % Len(unique_users)) + 1] : i \in 1 .. sample_size}
\* raw_data.loc[raw_data[user_col_name].isin(sample_users), :]
SampleUserPaths(raw_data, rds, user_sample_size, k) ==
    LET unique_users == UniqueUsers(raw_data, rds.user_id)
        sample_users == RandomChoice(unique_users,
                                     SampleSize(user_sample_size, unique_users), k)
    IN [raw_data EXCEPT !.rows =
           Filter(raw_data.rows, LAMBDA r : r[rds.user_id] \in sample_users)]

\* the caller holds a raw frame and has built no stream from it yet
InitSample ==
    /\ streams = [s \in Streams |-> NoEventstream]
    /\ next_id = 0
    /\ calls = 0
    /\ graph = NoGraph
    /\ \E raw_data \in SampleTables :
          last = [op |-> "none", self |-> NoStream, other |-> NoStream,
                  ok |-> TRUE, arg |-> << >>,
                  pre |-> [s \in Streams |-> NoEventstream],
                  error |-> NoError, warnings |-> << >>,
                  raw_data |-> raw_data]

\* what a call remembers of the call before it: the stream built, whether
\* it was built, and the sample size and seed given
Before ==
    IF last.op = "construct"
    THEN << last.self, last.ok, last.arg[4], last.arg[5] >>
    ELSE << >>

\* s = Eventstream(raw_data, user_sample_size=..., user_sample_seed=...)
\* from the caller's frame. A failed construction draws no event id.
ConstructSampled(s) ==
    /\ calls < MaxSamples
    /\ UNCHANGED graph
    /\ calls' = calls + 1
    /\ ~streams[s].live
    /\ \E user_sample_size \in SampleSizes, user_sample_seed \in SampleSeeds :
          LET raw_data == last.raw_data
              rds == DefaultRawDataSchema(raw_data)
              size_error == SampleSizeError(user_sample_size)
              unique_users == UniqueUsers(raw_data, rds.user_id)
              error == IF size_error # NoError THEN size_error
                       ELSE ChoiceError(unique_users,
                                SampleSize(user_sample_size, unique_users))
              call == [Call("construct", s, NoStream, error = NoError,
                            << raw_data, rds, TRUE, user_sample_size,
                               user_sample_seed, Before >>)
                          EXCEPT !.raw_data = raw_data]
          IN IF error # NoError
             THEN /\ last' = [call EXCEPT !.error = error]
                  /\ UNCHANGED << streams, next_id >>
             ELSE \E k \in GeneratorStates(user_sample_seed, Len(unique_users)) :
                     LET sampled == SampleUserPaths(raw_data, rds,
                                                    user_sample_size, k)
                         ids == FreshIds(NRows(sampled))
                     IN /\ streams' = [streams EXCEPT ![s] =
                              NewEventstreamWith(sampled, rds, << >>, << >>, ids)]
                        /\ next_id' = next_id + NRows(sampled)
                        /\ last' = [call EXCEPT !.warnings =
                              CleanupWarnings(PrepareEvents(
                                  sampled, rds, << >>, << >>, ids))]

NextSample ==
    \E s \in {"s1", "s2"} : ConstructSampled(s)

SpecSample == InitSample /\ [][NextSample]_vars

\* ---- C21
\* a construction with a user_sample_size was called
SampleCalled == last.op = "construct"
LastSampleSize == last.arg[4]
LastSampleSeed == last.arg[5]
\* the sizes the specification rejects
SampleSizeInvalid(size) ==
    \/ size.type \notin {"int", "float"}
    \/ size.num < 0
    \/ size.type = "float" /\ size.num > size.den
SampleSizeMessages ==
    {"\"user_sample_size\" has to be a number(float for user share or int for user amount)",
     "User sample size/share cannot be negative!",
     "User sample share cannot exceed 1!"}
\* C21: a construction with a user_sample_size that is neither an int nor
\* a float, that is negative, or that is a float above 1 fails with a
\* validation error and builds nothing; every int >= 0 and every float in
\* [0, 1] passes the validation
C21_SampleSizeValidated ==
    SampleCalled =>
        IF SampleSizeInvalid(LastSampleSize)
        THEN /\ ~last.ok
             /\ last.error.kind \in {"TypeError", "ValueError"}
             /\ last.error.message \in SampleSizeMessages
             /\ streams = last.pre
             /\ ~streams[last.self].live
        ELSE last.error.message \notin SampleSizeMessages
\* a share above 1 has been rejected after a share of exactly 1 was accepted
C21_Witness ==
    /\ SampleCalled
    /\ LastSampleSize.type = "float"
    /\ LastSampleSize.num > LastSampleSize.den
    /\ ~last.ok
    /\ last.arg[6] # << >>
    /\ last.arg[6][2]
    /\ last.arg[6][3].type = "float"
    /\ last.arg[6][3].num = last.arg[6][3].den
    /\ streams[last.arg[6][1]].live

\* ---- C22
\* the user ids of a table, and those that name a user
UserIdsOf(table) == {table.rows[i]["user_id"] : i \in 1 .. NRows(table)}
UsersOf(table) == UserIdsOf(table) \ {NaN}
RowsOfUser(table, u) == {i \in 1 .. NRows(table) : table.rows[i]["user_id"] = u}
\* the stream the last construction built, and the users it retains
SampledStream == streams[last.self]
Retained == UsersOf(SampledStream.events)
\* C22: with an int n not above the number of distinct users and a fixed
\* seed, exactly n distinct users remain; every row of a retained user is
\* kept; two constructions from the same raw data with the same size and
\* seed retain the same users; with a float f the number retained is the
\* integer part of f times the number of distinct users
C22_SampleExact ==
    SampleCalled /\ last.ok /\ LastSampleSeed # << >> =>
        LET distinct == UsersOf(LastRawData)
        IN /\ LastSampleSize.type = "int"
                  /\ LastSampleSize.num <= Cardinality(distinct)
              => Cardinality(Retained) = LastSampleSize.num
           /\ LastSampleSize.type = "float"
              => Cardinality(Retained)
                    = (LastSampleSize.num * Cardinality(distinct))
                          \div LastSampleSize.den
           /\ Retained \subseteq distinct
           /\ \A u \in Retained :
                 Cardinality(RowsOfUser(SampledStream.events, u))
                    = Cardinality(RowsOfUser(LastRawData, u))
           /\ last.arg[6] # << >>
                  /\ last.arg[6][2]
                  /\ last.arg[6][3] = LastSampleSize
                  /\ last.arg[6][4] = LastSampleSeed
              => UsersOf(streams[last.arg[6][1]].events) = Retained

\* ---- C23
\* C23: in every stream every custom column the schema names is a column
\* of the table (after construction, add_custom_col, append_eventstream,
\* _join_eventstream and every other call); and after
\* self._join_eventstream(other) the custom columns of self's schema are
\* those of both sides, each named once
C23_CustomColsConsistent ==
    /\ \A s \in Live : Range(streams[s].custom_cols) \subseteq streams[s].events.columns
    /\ Did("join_eventstream") =>
          /\ Range(PostSelf.custom_cols)
                = Range(PreSelf.custom_cols) \cup Range(PreOther.custom_cols)
          /\ Len(PostSelf.custom_cols) = Cardinality(Range(PostSelf.custom_cols))
\* a join of two streams that both have the custom column, into a table
\* with rows
C23_Witness ==
    /\ Did("join_eventstream")
    /\ PreSelf.custom_cols # << >>
    /\ PreOther.custom_cols # << >>
    /\ PostSelf.custom_cols = << "cc" >>
    /\ NRows(PostSelf.events) > 0
    /\ \E i \in Positions(PostSelf) : RowsOf(PostSelf)[i]["cc"] = 1

\* ========================================================= data processors
\* the streams handed to a processor are built from at most MaxProcRows rows
MaxProcRows == 3

\* EventstreamSchema.to_raw_data_schema(): every role and every custom
\* column is read from the column of its own name
ToRawDataSchema(custom_cols) ==
    DeclaringCustomCols(
        [event_name |-> "event_name", event_timestamp |-> "event_timestamp",
         user_id |-> "user_id", event_type |-> "event_type",
         custom_cols |-> << >>],
        custom_cols)

\* the row positions of a frame that hold the user's events, ascending
UserPositions(df, u) == {i \in 1 .. NRows(df) : df.rows[i]["user_id"] = u}
\* the users of a frame in ascending order, as groupby(user_col) visits them
RECURSIVE SortedSeq(_)
SortedSeq(S) ==
    IF S = {} THEN << >>
    ELSE LET m == CHOOSE x \in S : \A y \in S : x <= y
         IN << m >> \o SortedSeq(S \ {m})
GroupKeys(df) == SortedSeq({df.rows[i]["user_id"] : i \in 1 .. NRows(df)})

\* group.nsmallest(1, columns=time_col): the first of the user's rows with
\* the smallest timestamp
NSmallest(df, u) ==
    CHOOSE i \in UserPositions(df, u) :
        \A j \in UserPositions(df, u) :
            \/ df.rows[i]["event_timestamp"] < df.rows[j]["event_timestamp"]
            \/ df.rows[i]["event_timestamp"] = df.rows[j]["event_timestamp"] /\ i <= j
\* group.nlargest(1, columns=time_col): the first of the user's rows with
\* the largest timestamp
NLargest(df, u) ==
    CHOOSE i \in UserPositions(df, u) :
        \A j \in UserPositions(df, u) :
            \/ df.rows[i]["event_timestamp"] > df.rows[j]["event_timestamp"]
            \/ df.rows[i]["event_timestamp"] = df.rows[j]["event_timestamp"] /\ i <= j
\* a matched row renamed to the synthetic event, ref set to its event_id
Matched(r, columns, name) ==
    [c \in columns \cup {"ref"} |->
        CASE c = "event_type" -> name
          [] c = "event_name" -> name
          [] c = "ref" -> r["event_id"]
          [] OTHER -> r[c]]
\* StartEndEvents.apply up to the construction: matched_events
StartEndEventsFrame(es) ==
    LET events == ToDataframe(es, FALSE, FALSE)
        users == GroupKeys(events)
    IN [columns |-> events.columns \cup {"ref"},
        rows |-> [k \in 1 .. Len(users) |->
                     Matched(events.rows[NSmallest(events, users[k])],
                             events.columns, "start")]
                 \o [k \in 1 .. Len(users) |->
                     Matched(events.rows[NLargest(events, users[k])],
                             events.columns, "end")]]

\* a faulty _point, for comparison: without the transform(max), 1 only on
\* the cutoff events themselves
CutPointOwnRowOnly(df, cutoff_events, i) ==
    IF df.rows[i]["event_name"] \in cutoff_events THEN 1 ELSE 0
\* df["_point"] after the transform(max) over (user, timestamp): 1 on every
\* row that shares user and timestamp with a cutoff event
CutPoint(df, cutoff_events, i) ==
    IF \E j \in 1 .. NRows(df) :
          /\ df.rows[j]["user_id"] = df.rows[i]["user_id"]
          /\ df.rows[j]["event_timestamp"] = df.rows[i]["event_timestamp"]
          /\ df.rows[j]["event_name"] \in cutoff_events
    THEN 1 ELSE 0
\* _cumsum: the running sum of _point over the user's rows
CutCumsum(df, cutoff_events, i) ==
    Cardinality({j \in UserPositions(df, df.rows[i]["user_id"]) :
                    j <= i /\ CutPoint(df, cutoff_events, j) = 1})
\* num_groups of a row of df_cut: the changes of timestamp among the user's
\* rows of df_cut up to it, the first row counting as one
CutNumGroups(df, cut, i) ==
    LET mine == {j \in cut : j <= i /\ df.rows[j]["user_id"] = df.rows[i]["user_id"]}
    IN Cardinality({j \in mine :
          \A k \in mine : k < j /\ (\A l \in mine : ~(k < l /\ l < j))
              => df.rows[k]["event_timestamp"] # df.rows[j]["event_timestamp"]})
\* CutPathBeforeEvent.apply up to the construction: the positions of the
\* rows of df that the returned frame keeps
CutPathKept(df, cutoff_events, cut_shift, min_cjm) ==
    LET all == 1 .. NRows(df)
        cut0 == {i \in all : CutCumsum(df, cutoff_events, i) > 0}
        del0 == {i \in all : CutCumsum(df, cutoff_events, i) = 0}
        shifted == {i \in cut0 : CutNumGroups(df, cut0, i) <= cut_shift}
        ids_to_del == IF cut_shift > 0 THEN del0 \cup shifted ELSE del0
        df_cut == IF cut_shift > 0 THEN cut0 \ shifted ELSE cut0
        Max(u) == LET ns == {CutNumGroups(df, cut0, i) :
                                i \in {j \in df_cut : df.rows[j]["user_id"] = u}}
                  IN CHOOSE n \in ns : \A m \in ns : m <= n
        users_to_del == {u \in {df.rows[i]["user_id"] : i \in df_cut} :
                            Max(u) < min_cjm}
        rows == IF min_cjm > 0
                THEN {i \in all : df.rows[i]["user_id"] \in users_to_del}
                ELSE all
    IN rows \cap ids_to_del
\* CutPathBeforeEvent.apply up to the construction: df
CutPathBeforeEventFrame(es, cutoff_events, cut_shift, min_cjm) ==
    LET events == ToDataframe(es, FALSE, FALSE)
        kept == CutPathKept(events, cutoff_events, cut_shift, min_cjm)
        cols == events.columns \cup {"_point", "ref"}
    IN [columns |-> cols,
        rows |-> [k \in 1 .. Cardinality(kept) |->
                    LET i == SortedSeq(kept)[k]
                    IN [c \in cols |->
                          CASE c = "_point" -> CutPoint(events, cutoff_events, i)
                            [] c = "ref" -> events.rows[i]["event_id"]
                            [] OTHER -> events.rows[i][c]]]]

\* the Relation a processor declares for the stream it returns, with the
\* key "evenstream" as the processors write it
ProcessorRelation(p) == [raw_col |-> "ref", evenstream |-> p]

\* Eventstream(raw_data=frame,
\*             raw_data_schema=p.schema.to_raw_data_schema(),
\*             relations=[{"raw_col": "ref", "evenstream": p}])
ProcessorReturns(op, s, p, frame, arg) ==
    /\ Tick
    /\ streams[p].live
    /\ ~streams[s].live
    /\ LET rds == ToRawDataSchema(streams[p].custom_cols)
           relations == << ProcessorRelation(p) >>
           ids == FreshIds(NRows(frame))
       IN /\ streams' = [streams EXCEPT ![s] =
                NewEventstreamWith(frame, rds, << >>, relations, ids)]
          /\ next_id' = next_id + NRows(frame)
          /\ last' = Call(op, s, p, TRUE, arg)

\* s = StartEndEvents(params).apply(p)
StartEndEventsApply(s, p) ==
    /\ streams[p].live
    /\ ProcessorReturns("start_end_events", s, p,
                        StartEndEventsFrame(streams[p]), << >>)

\* the parameters of CutPathBeforeEvent
CutoffEvents == {{}, {"x"}}
CutShifts == {0, 1}
MinCjms == {0, 1}
\* s = CutPathBeforeEvent(params).apply(p)
CutPathBeforeEventApply(s, p) ==
    /\ streams[p].live
    /\ \E cutoff_events \in CutoffEvents, cut_shift \in CutShifts,
          min_cjm \in MinCjms :
          ProcessorReturns("cut_path_before_event", s, p,
              CutPathBeforeEventFrame(streams[p], cutoff_events, cut_shift, min_cjm),
              << cutoff_events, cut_shift, min_cjm >>)

\* the raw rows of the streams handed to a processor: two users, the
\* events a and x, two instants
ProcRows ==
    {[event |-> ev, timestamp |-> ts, user_id |-> 1, event_type |-> "raw"] :
        ev \in {"a", "x"},
        ts \in {"2022-01-01 00:01:00", "2022-01-01 00:02:00"}}
    \cup {[event |-> "a", timestamp |-> "2022-01-01 00:01:00", user_id |-> 2,
           event_type |-> "raw"],
          [event |-> "x", timestamp |-> "2022-01-01 00:02:00", user_id |-> 2,
           event_type |-> "raw"]}
ProcTables ==
    {[columns |-> {"event", "timestamp", "user_id", "event_type"}, rows |-> rs] :
        rs \in SeqsUpTo(ProcRows, MaxProcRows)}

\* s1 = Eventstream(raw_data) has been built from some raw data
InitProcessor ==
    /\ \E raw_data \in ProcTables :
          /\ streams = [s \in Streams |->
                IF s = "s1"
                THEN NewEventstream(raw_data, << >>, << >>,
                                    [i \in 1 .. NRows(raw_data) |-> i])
                ELSE NoEventstream]
          /\ next_id = NRows(raw_data)
          /\ last = [op |-> "construct", self |-> "s1", other |-> NoStream,
                     ok |-> TRUE,
                     arg |-> << raw_data, DefaultRawDataSchema(raw_data), TRUE >>,
                     pre |-> [s \in Streams |-> NoEventstream],
                     error |-> NoError, warnings |-> << >>,
                     raw_data |-> raw_data]
    /\ calls = 0
    /\ graph = NoGraph

\* the source stream's first call may be a soft delete
SoftDeleteSource ==
    /\ calls = 0
    /\ SoftDeleteCall("s1")

NextProcessor ==
    \/ SoftDeleteSource
    \/ \E s \in DOMAIN Parent : StartEndEventsApply(s, Parent[s])
    \/ \E s \in DOMAIN Parent : CutPathBeforeEventApply(s, Parent[s])
    \/ \E s, o \in Streams : JoinCall(s, o)

SpecProcessor == InitProcessor /\ [][NextProcessor]_vars

\* ---- C24
\* the last call was a processor's apply
Applied == last.op \in {"start_end_events", "cut_path_before_event"}
\* C24: the stream a processor returns for an input stream E declares a
\* Relation whose eventstream entry is E, and E._join_eventstream(result)
\* finds it: the join does not fail with a missing-relation or lookup error
C24_ProcessorContract ==
    /\ Applied =>
          \E i \in 1 .. Len(PostSelf.relations) :
              /\ "eventstream" \in DOMAIN PostSelf.relations[i]
              /\ PostSelf.relations[i].eventstream = Other
    /\ last.op = "join_eventstream"
          /\ Other \in DOMAIN Parent
          /\ Parent[Other] = Self
       => last.error.kind # "KeyError" /\ last.error.message # "relation not found!"

\* ---- C28
\* C28: after append_eventstream or _join_eventstream self's table still
\* has a relation column ref_i for every i below len(self.relations), every
\* row carried over from self (a row of the result that has the values of
\* a row self had) keeps its ref_i values, and to_dataframe of the result
\* exposes these columns
C28_LineageColumnsSurvive ==
    Did("append_eventstream") \/ Did("join_eventstream") =>
        \A i \in 0 .. Len(PostSelf.relations) - 1 :
            /\ RefCol(i) \in PostSelf.events.columns
            /\ RefCol(i) \in ToDataframe(PostSelf, FALSE, FALSE).columns
            /\ \A k \in Positions(PostSelf) : \A j \in Positions(PreSelf) :
                  SameOn(RowsOf(PostSelf)[k], RowsOf(PreSelf)[j],
                         GetCols(PreSelf.custom_cols) \ {"event_index"})
                  => RowsOf(PostSelf)[k][RefCol(i)] = RowsOf(PreSelf)[j][RefCol(i)]

\* ---- C29
\* the stream E handed to the processor, its events that are not deleted,
\* and the parameters of the last CutPathBeforeEvent
AppliedTo == last.pre[last.other]
Visible == GetNotDeletedEvents(AppliedTo.events).rows
CutParams == [cutoff_events |-> last.arg[1], cut_shift |-> last.arg[2],
              min_cjm |-> last.arg[3]]
\* the visible event x comes before the first timestamp at which its user
\* has a cutoff event (or its user has none)
BeforeCutoff(x) ==
    \A i \in 1 .. Len(Visible) :
        Visible[i]["user_id"] = x["user_id"]
            /\ Visible[i]["event_name"] \in CutParams.cutoff_events
        => x["event_timestamp"] < Visible[i]["event_timestamp"]
ExpectedCut == {i \in 1 .. Len(Visible) : BeforeCutoff(Visible[i])}
\* C29: with cut_shift = 0 and min_cjm = 0 the stream
\* CutPathBeforeEvent.apply(E) returns consists of exactly the non-deleted
\* events of E before their user's first cutoff timestamp (all events of a
\* user without a cutoff event), each with ref equal to its event_id in E;
\* events at or after that timestamp are not in it
C29_CutPathBeforeEvent ==
    Did("cut_path_before_event") /\ CutParams.cut_shift = 0 /\ CutParams.min_cjm = 0 =>
        /\ NRows(PostSelf.events) = Cardinality(ExpectedCut)
        /\ \A i \in ExpectedCut : \E k \in Positions(PostSelf) :
              /\ RowsOf(PostSelf)[k]["ref_0"] = Visible[i]["event_id"]
              /\ SameOn(RowsOf(PostSelf)[k], Visible[i],
                        {"event_name", "event_timestamp", "user_id", "event_type"})
        /\ \A k \in Positions(PostSelf) : \E i \in ExpectedCut :
              RowsOf(PostSelf)[k]["ref_0"] = Visible[i]["event_id"]
\* a cut that kept an event and dropped the cutoff event and an event a
\* that is at or after the cutoff timestamp
C29_Witness ==
    /\ Did("cut_path_before_event")
    /\ CutParams.cut_shift = 0 /\ CutParams.min_cjm = 0
    /\ CutParams.cutoff_events = {"x"}
    /\ 0 < NRows(PostSelf.events)
    /\ NRows(PostSelf.events) < Len(Visible)
    /\ \E i \in 1 .. Len(Visible) :
          /\ Visible[i]["event_name"] = "a"
          /\ i \notin ExpectedCut

\* ================================================================= widgets
\* the texts handed to ReteTimeWidget._parse have at most MaxText
\* characters, and a run makes at most MaxWidgetCalls calls of the widget
MaxText == 5
MaxWidgetCalls == 2

\* a str is the sequence of its characters; a number is its type and its
\* decimal digits, without leading zeros (and a float without trailing ones)
WidgetNumbers ==
    { [type |-> "int", whole |-> << "1" >>, frac |-> << >>],
      [type |-> "int", whole |-> << "1", "0" >>, frac |-> << >>],
      [type |-> "float", whole |-> << "1" >>, frac |-> << "0" >>],
      [type |-> "float", whole |-> << "1" >>, frac |-> << "1" >>],
      [type |-> "float", whole |-> << "0" >>, frac |-> << "1" >>] }
WidgetUnits == { << "s" >>, << "s", "s" >> }
\* the values (t, u) handed to ReteTimeWidget._serialize
WidgetValues == WidgetNumbers \X WidgetUnits
\* the characters of the texts handed to _parse
WidgetChars == {"1", ".", " ", "s"}
WidgetTexts == SeqsUpTo(WidgetChars, MaxText)

\* str(x) of a number: the digits of an int, "whole.frac" of a float
StrOfNumber(t) ==
    IF t.type = "int" THEN t.whole ELSE t.whole \o << "." >> \o t.frac
\* ReteTimeWidget._serialize: ','.join([str(x) for x in value])
Serialize(value) == StrOfNumber(value[1]) \o << "," >> \o value[2]

RECURSIVE SplitFrom(_, _, _)
\* value.split(): the maximal runs of characters that are not whitespace;
\* word is the run being read
SplitFrom(text, i, word) ==
    IF i > Len(text)
    THEN (IF word = << >> THEN << >> ELSE << word >>)
    ELSE IF text[i] = " "
    THEN (IF word = << >> THEN << >> ELSE << word >>) \o SplitFrom(text, i + 1, << >>)
    ELSE SplitFrom(text, i + 1, Append(word, text[i]))
Split(text) == SplitFrom(text, 1, << >>)

\* the texts float() accepts, among those over the characters used here:
\* digits with at most one point and at least one digit
IsFloatLiteral(token) ==
    /\ \A i \in 1 .. Len(token) : token[i] \in {"0", "1", "."}
    /\ Cardinality({i \in 1 .. Len(token) : token[i] = "."}) <= 1
    /\ \E i \in 1 .. Len(token) : token[i] # "."
RECURSIVE StripLeadingZeros(_)
StripLeadingZeros(ds) ==
    IF Len(ds) > 1 /\ Head(ds) = "0" THEN StripLeadingZeros(Tail(ds)) ELSE ds
RECURSIVE StripTrailingZeros(_)
StripTrailingZeros(ds) ==
    IF Len(ds) > 1 /\ ds[Len(ds)] = "0"
    THEN StripTrailingZeros(SubSeq(ds, 1, Len(ds) - 1)) ELSE ds
\* float(token) of an accepted text
FloatOf(token) ==
    LET points == {i \in 1 .. Len(token) : token[i] = "."}
        p == IF points = {} THEN Len(token) + 1 ELSE CHOOSE i \in points : TRUE
        whole == SubSeq(token, 1, p - 1)
        frac == SubSeq(token, p + 1, Len(token))
    IN [type |-> "float",
        whole |-> StripLeadingZeros(IF whole = << >> THEN << "0" >> ELSE whole),
        frac |-> StripTrailingZeros(IF frac = << >> THEN << "0" >> ELSE frac)]

\* ReteTimeWidget._parse: the error raised, or the tuple returned
Parse(text) ==
    LET data == Split(text)
    IN IF Len(data) > 2
       THEN [error |-> [kind |-> "Exception", message |-> "Incorrect input",
                        column |-> ""],
             value |-> << >>]
       ELSE IF Len(data) = 0
       THEN [error |-> [kind |-> "IndexError", message |-> "", column |-> ""],
             value |-> << >>]
       ELSE IF ~IsFloatLiteral(data[1])
       THEN [error |-> [kind |-> "ValueError", message |-> "", column |-> ""],
             value |-> << >>]
       ELSE IF Len(data) < 2
       THEN [error |-> [kind |-> "IndexError", message |-> "", column |-> ""],
             value |-> << >>]
       ELSE [error |-> NoError, value |-> << FloatOf(data[1]), data[2] >>]

\* no stream has been built; the widget has not been used
InitWidget ==
    /\ streams = [s \in Streams |-> NoEventstream]
    /\ next_id = 0
    /\ calls = 0
    /\ graph = NoGraph
    /\ last = [op |-> "none", self |-> NoStream, other |-> NoStream,
               ok |-> TRUE, arg |-> << >>,
               pre |-> [s \in Streams |-> NoEventstream],
               error |-> NoError, warnings |-> << >>, raw_data |-> EmptyTable]

\* text = ReteTimeWidget._serialize(value)
WidgetSerialize ==
    /\ calls < MaxWidgetCalls
    /\ UNCHANGED graph
    /\ calls' = calls + 1
    /\ \E value \in WidgetValues :
          last' = Call("_serialize", NoStream, NoStream, TRUE,
                       << value, Serialize(value) >>)
    /\ UNCHANGED << streams, next_id >>

\* ReteTimeWidget._parse(text), text any text or the one _serialize has
\* just returned (then the call remembers the value serialized)
WidgetParse ==
    /\ calls < MaxWidgetCalls
    /\ UNCHANGED graph
    /\ calls' = calls + 1
    /\ \E text \in WidgetTexts
                   \cup (IF last.op = "_serialize" THEN {last.arg[2]} ELSE {}) :
          LET result == Parse(text)
              from == IF last.op = "_serialize" /\ text = last.arg[2]
                      THEN << last.arg[1] >> ELSE << >>
          IN last' = [Call("_parse", NoStream, NoStream, result.error = NoError,
                           << text, result.value, from >>)
                         EXCEPT !.error = result.error]
    /\ UNCHANGED << streams, next_id >>

NextWidget ==
    \/ WidgetSerialize
    \/ WidgetParse

SpecWidget == InitWidget /\ [][NextWidget]_vars

\* ---- C30
\* float(t) of a number t
ToFloat(t) ==
    [type |-> "float", whole |-> t.whole,
     frac |-> IF t.type = "int" THEN << "0" >> ELSE t.frac]
\* the number of whitespace-separated tokens of a text
TokenCount(text) ==
    Cardinality({i \in 1 .. Len(text) :
                    text[i] # " " /\ (i = 1 \/ text[i - 1] = " ")})
\* C30: _parse(_serialize((t, u))) returns (float(t), u) for every number
\* t and every unit u without whitespace; and _parse raises an error for
\* a text of more than two whitespace-separated tokens
C30_WidgetRoundTrip ==
    last.op = "_parse" =>
        /\ last.arg[3] # << >> =>
              /\ last.ok
              /\ last.arg[2] = << ToFloat(last.arg[3][1][1]), last.arg[3][1][2] >>
        /\ TokenCount(last.arg[1]) > 2 => ~last.ok

\* ============================================================= graph nodes
\* how many calls of build_node a behaviour makes
MaxBuilds == 1
\* the classes build_node can name (the dict nodes)
NodeClasses == {"MergeNode", "EventsNode", "SourceNode"}
\* the processors a registry may hold, with the params annotation of each:
\* a str, as the module has "from __future__ import annotations"
ParamsAnnotation == [CutPathBeforeEvent |-> "CutPathBeforeEventParams"]
\* the fields CutPathBeforeEventParams requires
RequiredParams == {"cutoff_events", "cut_shift", "min_cjm"}
\* a processor_params dict: the values of the keys it supplies
ParamsDicts ==
    {[k \in keys |-> CASE k = "cutoff_events" -> {"x"} [] OTHER -> 0] :
        keys \in SUBSET RequiredParams}

\* the arguments of build_node and the registries it finds
BuildNodeInputs ==
    [pk : {"n1", "n2"},
     node_name : NodeClasses \cup {"Node"},
     processor_name : {NoneType, "", "CutPathBeforeEvent", "SplitSessions"},
     processor_params : ParamsDicts,
     descriptionn : {NoneType, "cut"},
     dataprocessor_registry : SUBSET {"CutPathBeforeEvent"},
     params_model_registry : SUBSET {"CutPathBeforeEventParams"}]

\* "if processor_name and node_name == 'EventsNode'": the branch that
\* builds the processor is taken
BuildsProcessor(in) ==
    /\ in.processor_name # NoneType
    /\ in.processor_name # ""
    /\ in.node_name = "EventsNode"

\* a faulty build_node, for comparison: the params annotation is taken as
\* the model itself, without a look into the params-model registry
BuildNodeErrorNoParamsLookup(in) ==
    IF in.node_name \notin NodeClasses
    THEN [kind |-> "KeyError", message |-> in.node_name, column |-> ""]
    ELSE IF BuildsProcessor(in) /\ in.processor_name \notin in.dataprocessor_registry
    THEN [kind |-> "KeyError", message |-> in.processor_name, column |-> ""]
    ELSE IF BuildsProcessor(in)
            /\ RequiredParams \ DOMAIN in.processor_params # {}
    THEN [kind |-> "ValidationError", message |-> "field required", column |-> ""]
    ELSE IF in.node_name = "EventsNode" /\ ~BuildsProcessor(in)
    THEN [kind |-> "TypeError",
          message |-> "__init__() missing 1 required positional argument: 'processor'",
          column |-> ""]
    ELSE NoError
\* the exception build_node raises: nodes[node_name], the two registry
\* lookups, the construction of the params model, and EventsNode() without
\* its processor
BuildNodeError(in) ==
    IF in.node_name \notin NodeClasses
    THEN [kind |-> "KeyError", message |-> in.node_name, column |-> ""]
    ELSE IF BuildsProcessor(in) /\ in.processor_name \notin in.dataprocessor_registry
    THEN [kind |-> "KeyError", message |-> in.processor_name, column |-> ""]
    ELSE IF BuildsProcessor(in)
            /\ ParamsAnnotation[in.processor_name] \notin in.params_model_registry
    THEN [kind |-> "KeyError", message |-> ParamsAnnotation[in.processor_name],
          column |-> ""]
    ELSE IF BuildsProcessor(in)
            /\ RequiredParams \ DOMAIN in.processor_params # {}
    THEN [kind |-> "ValidationError", message |-> "field required", column |-> ""]
    ELSE IF in.node_name = "EventsNode" /\ ~BuildsProcessor(in)
    THEN [kind |-> "TypeError",
          message |-> "__init__() missing 1 required positional argument: 'processor'",
          column |-> ""]
    ELSE NoError

\* the node build_node returns when it raises nothing: an object of the
\* class, with the processor built and the source stream wrapped
BuildNode(in, source_stream) ==
    [name |-> in.node_name,
     pk |-> in.pk,
     description |-> in.descriptionn,
     processor |-> IF BuildsProcessor(in)
                   THEN << in.processor_name, in.processor_params >>
                   ELSE << >>,
     events |-> IF in.node_name = "SourceNode" THEN source_stream ELSE NoStream]

\* node = build_node(source_stream, pk, node_name, processor_name,
\*                   processor_params, descriptionn)
BuildNodeCall ==
    /\ calls < MaxBuilds
    /\ UNCHANGED graph
    /\ calls' = calls + 1
    /\ \E in \in BuildNodeInputs :
          LET error == BuildNodeError(in)
          IN last' = [Call("build_node", NoStream, "s1", error = NoError,
                           << in, IF error = NoError
                                  THEN << BuildNode(in, "s1") >> ELSE << >> >>)
                         EXCEPT !.error = error]
    /\ UNCHANGED << streams, next_id >>

NextBuild == BuildNodeCall

SpecBuild == InitProcessor /\ [][NextBuild]_vars

\* ---- C27
BuildArgs == last.arg[1]
Returned == last.arg[2]
\* a processor name has been given
NamesProcessor == BuildArgs.processor_name \notin {NoneType, ""}
FailsWith(kind) == ~last.ok /\ last.error.kind = kind /\ Returned = << >>
\* C27: build_node for an EventsNode fails with a lookup error when the
\* processor name given is not in the data-processor registry or when the
\* processor's params annotation names a model that is not in the
\* params-model registry, and with a validation error when required
\* processor parameters are not supplied; a failing call returns no node;
\* a successful call returns a node of the class named by node_name with
\* the given pk and the given description
C27_BuildNode ==
    last.op = "build_node" =>
        /\ BuildArgs.node_name = "EventsNode" /\ NamesProcessor =>
              /\ BuildArgs.processor_name \notin BuildArgs.dataprocessor_registry
                    => FailsWith("KeyError")
              /\ BuildArgs.processor_name \in BuildArgs.dataprocessor_registry
                    /\ "CutPathBeforeEventParams" \notin BuildArgs.params_model_registry
                    => FailsWith("KeyError")
              /\ BuildArgs.processor_name \in BuildArgs.dataprocessor_registry
                    /\ "CutPathBeforeEventParams" \in BuildArgs.params_model_registry
                    /\ DOMAIN BuildArgs.processor_params # RequiredParams
                    => FailsWith("ValidationError")
        /\ ~last.ok => Returned = << >>
        /\ last.ok =>
              /\ Len(Returned) = 1
              /\ Returned[1].name = BuildArgs.node_name
              /\ Returned[1].pk = BuildArgs.pk
              /\ Returned[1].description = BuildArgs.descriptionn
\* an EventsNode has been built with its processor and a description
C27_Witness ==
    /\ last.op = "build_node"
    /\ last.ok
    /\ Returned[1].name = "EventsNode"
    /\ Returned[1].processor # << >>
    /\ Returned[1].description = "cut"

\* ====================================================== preprocessing graph
\* the source stream of a graph has at most MaxGraphRows rows, and a run
\* makes at most MaxGraphCalls calls on its graph
MaxGraphRows == 2
MaxGraphCalls == 4
GraphTables ==
    {[columns |-> {"event", "timestamp", "user_id", "event_type"}, rows |-> rs] :
        rs \in SeqsUpTo(ProcRows, MaxGraphRows)}

\* SourceNode(source, description)
SourceNode(pk, source, description) ==
    [name |-> "SourceNode", pk |-> pk, description |-> description,
     processor |-> << >>, events |-> source]
\* EventsNode(processor, description): no events yet
EventsNode(pk, processor, description) ==
    [name |-> "EventsNode", pk |-> pk, description |-> description,
     processor |-> processor, events |-> NoStream]

\* the processors the nodes of a run wrap
GraphProcessors ==
    {<< "CutPathBeforeEvent",
        [cutoff_events |-> cutoff_events, cut_shift |-> 0, min_cjm |-> 0] >> :
        cutoff_events \in CutoffEvents}
\* the stream object the events of an Events node refers to
EventsSlot == [n1 |-> "s2", n2 |-> "s3"]

\* the nodes that have node n among their ancestors
RECURSIVE Descendants(_, _)
Descendants(g, n) ==
    LET children == {m \in NodePks :
                        \E i \in 1 .. Len(g.parents[m]) : g.parents[m][i] = n}
    IN children \cup UNION {Descendants(g, m) : m \in children}

\* what the output of node n is computed from: its processor, and the same
\* of its parents up to the source
RECURSIVE Lineage(_, _)
Lineage(g, n) ==
    IF g.nodes[n].name = "SourceNode"
    THEN << n >>
    ELSE << n, g.nodes[n].processor,
            [i \in 1 .. Len(g.parents[n]) |-> Lineage(g, g.parents[n][i])] >>

\* the nodes whose cached output a change of node n invalidates
Invalidated(g, n) == {n} \cup Descendants(g, n)

\* a faulty invalidation, for comparison: the cached outputs stay
InvalidateNothing(g, ns) == g
\* the graph with the cached outputs of the nodes ns dropped
Invalidate(g, ns) ==
    [g EXCEPT
        !.nodes = [n \in NodePks |->
                      IF n \in ns /\ g.nodes[n].name = "EventsNode"
                      THEN [g.nodes[n] EXCEPT !.events = NoStream]
                      ELSE g.nodes[n]],
        !.cache_key = [n \in NodePks |-> IF n \in ns THEN << >> ELSE g.cache_key[n]],
        !.computed_with = [n \in NodePks |->
                              IF n \in ns THEN << >> ELSE g.computed_with[n]]]
\* the stream objects the dropped outputs were
Dropped(store, g, ns) ==
    [s \in Streams |->
        IF \E n \in ns \cap DOMAIN EventsSlot :
              g.nodes[n].events = s /\ EventsSlot[n] = s
        THEN NoEventstream ELSE store[s]]

\* the frame of self.processor.apply(parent)
CalcEventsFrame(node, parent) ==
    CutPathBeforeEventFrame(parent, node.processor[2].cutoff_events,
                            node.processor[2].cut_shift,
                            node.processor[2].min_cjm)

\* node.calc_events(parent): self.events = self.processor.apply(parent),
\* on the state w = [streams, next_id, graph]; parent_name is the parent
\* object, which the relation of the new stream names
CalcEvents(w, n, parent, parent_name) ==
    LET frame == CalcEventsFrame(w.graph.nodes[n], parent)
        rds == ToRawDataSchema(parent.custom_cols)
        ids == [i \in 1 .. NRows(frame) |-> w.next_id + i]
        events == NewEventstreamWith(frame, rds, << >>,
                                     << ProcessorRelation(parent_name) >>, ids)
    IN [streams |-> [w.streams EXCEPT ![EventsSlot[n]] = events],
        next_id |-> w.next_id + NRows(frame),
        graph |-> [w.graph EXCEPT
                      !.nodes[n].events = EventsSlot[n],
                      !.cache_key[n] = << parent >>,
                      !.computed_with[n] = Lineage(w.graph, n)]]

\* Events node n holds the result of its processor for the output of its
\* parent that the evaluation up has produced
Cached(up, n) ==
    /\ up.w.graph.nodes[n].events # NoStream
    /\ up.w.graph.cache_key[n] = << up.out >>
\* the state after node n has its events: calc_events runs unless they are
\* cached
WithEvents(up, n) ==
    IF Cached(up, n) THEN up.w ELSE CalcEvents(up.w, n, up.out, up.out_name)
\* copy = parent.copy(); copy._join_eventstream(events): the output of node
\* n, or the error of the join
JoinedIntoCopy(w, copy, events, n) ==
    IF JoinError(copy, events, n) # NoError
    THEN [w |-> w, error |-> JoinError(copy, events, n), out |-> NoEventstream,
          out_name |-> NoStream]
    ELSE [w |-> w, error |-> NoError,
          out |-> JoinEventstream(copy, events, FindRelation(events.relations, n)),
          out_name |-> n]
\* the output of Events node n, given the evaluation up of its parent: the
\* node applies its processor to the parent's output, unless it has cached
\* the result for this output of the parent, and joins the result into a
\* copy of the parent's output
EvaluateEvents(up, n) ==
    IF up.error # NoError
    THEN up
    ELSE JoinedIntoCopy(WithEvents(up, n), CopyEventstream(up.out),
                        WithEvents(up, n).streams[EventsSlot[n]], n)

\* the evaluation of node n on the state w = [streams, next_id, graph],
\* sources first: the state it leaves, the error it raises, and the output
\* with the name of the output object
RECURSIVE Evaluate(_, _)
Evaluate(w, n) ==
    IF w.graph.nodes[n].name = "SourceNode"
    THEN [w |-> w, error |-> NoError,
          out |-> w.streams[w.graph.nodes[n].events],
          out_name |-> w.graph.nodes[n].events]
    ELSE EvaluateEvents(Evaluate(w, w.graph.parents[n][1]), n)

\* p = PGraph(source_stream=s1): the root wraps s1
InitGraph ==
    /\ \E raw_data \in GraphTables :
          /\ streams = [s \in Streams |->
                IF s = "s1"
                THEN NewEventstream(raw_data, << >>, << >>,
                                    [i \in 1 .. NRows(raw_data) |-> i])
                ELSE NoEventstream]
          /\ next_id = NRows(raw_data)
    /\ last = [op |-> "none", self |-> NoStream, other |-> NoStream,
               ok |-> TRUE, arg |-> << >>,
               pre |-> [s \in Streams |-> NoEventstream],
               error |-> NoError, warnings |-> << >>, raw_data |-> EmptyTable]
    /\ calls = 0
    /\ graph = [NoGraph EXCEPT !.nodes["n0"] = SourceNode("n0", "s1", NoneType)]

GraphTick == calls < MaxGraphCalls /\ calls' = calls + 1

\* p.add_node(node=EventsNode(processor=CutPathBeforeEvent(params=...)),
\*            parents=[m])
AddNodeCall(n, m) ==
    /\ GraphTick
    /\ n \in DOMAIN EventsSlot
    /\ graph.nodes[n] = NoNode
    /\ graph.nodes[m] # NoNode
    /\ \E processor \in GraphProcessors :
          graph' = [graph EXCEPT !.nodes[n] = EventsNode(n, processor, NoneType),
                                 !.parents[n] = << m >>]
    /\ last' = Call("add_node", NoStream, NoStream, TRUE, << n, m >>)
    /\ UNCHANGED << streams, next_id >>

\* the processor of Events node n is replaced
ReplaceProcessor(n) ==
    /\ GraphTick
    /\ graph.nodes[n].name = "EventsNode"
    /\ \E processor \in GraphProcessors \ {graph.nodes[n].processor} :
          graph' = Invalidate([graph EXCEPT !.nodes[n].processor = processor],
                              Invalidated(graph, n))
    /\ streams' = Dropped(streams, graph, Invalidated(graph, n))
    /\ last' = Call("replace_processor", NoStream, NoStream, TRUE,
                    << n, graph.nodes[n].processor >>)
    /\ UNCHANGED next_id

\* the parents of Events node n become [m]
SetParents(n, m) ==
    /\ GraphTick
    /\ graph.nodes[n].name = "EventsNode"
    /\ graph.nodes[m] # NoNode
    /\ m \notin {n} \cup Descendants(graph, n)
    /\ graph.parents[n] # << m >>
    /\ graph' = Invalidate([graph EXCEPT !.parents[n] = << m >>],
                           Invalidated(graph, n))
    /\ streams' = Dropped(streams, graph, Invalidated(graph, n))
    /\ last' = Call("set_parents", NoStream, NoStream, TRUE,
                    << n, graph.parents[n] >>)
    /\ UNCHANGED next_id

\* p.combine(node n)
CombineCall(n) ==
    /\ GraphTick
    /\ graph.nodes[n] # NoNode
    /\ \E got \in {Evaluate([streams |-> streams, next_id |-> next_id,
                             graph |-> graph], n)} :
          /\ streams' = got.w.streams
          /\ next_id' = got.w.next_id
          /\ graph' = got.w.graph
          /\ last' = [Call("combine", NoStream, NoStream, got.error = NoError,
                           << n, IF got.error = NoError
                                 THEN << got.out >> ELSE << >> >>)
                         EXCEPT !.error = got.error]

NextGraph ==
    \/ \E n, m \in NodePks : AddNodeCall(n, m)
    \/ \E n \in NodePks : ReplaceProcessor(n)
    \/ \E n, m \in NodePks : SetParents(n, m)
    \/ \E n \in NodePks : CombineCall(n)

SpecGraph == InitGraph /\ [][NextGraph]_vars


\* ---- C25
CombineTarget == last.arg[1]
\* the processor of the target maps the rows of the source one to one: it
\* keeps every row, none of which is deleted
OneToOne ==
    LET S == streams["s1"]
        frame == CutPathBeforeEventFrame(S,
                    graph.nodes[CombineTarget].processor[2].cutoff_events, 0, 0)
    IN /\ \A i \in 1 .. NRows(S.events) : ~S.events.rows[i][DELETE_COL_NAME]
       /\ NRows(frame) = NRows(S.events)
       /\ \A i \in 1 .. NRows(frame) :
             frame.rows[i]["ref"] = S.events.rows[i]["event_id"]
\* C25: in a graph Source(S) -> Events(P) whose processor maps the rows of
\* S one to one and marks none deleted, combine(Events node) yields a
\* stream with as many rows as S, in which ref_0 of each row is the
\* event_id of the corresponding row of S
C25_GraphCombine ==
    /\ last.op = "combine"
    /\ graph.nodes[CombineTarget].name = "EventsNode"
    /\ graph.parents[CombineTarget] = << "n0" >>
    /\ OneToOne
    => /\ last.ok
       /\ LET out == last.arg[2][1].events
              S == streams["s1"].events
          IN /\ NRows(out) = NRows(S)
             /\ "ref_0" \in out.columns
             /\ \A i \in 1 .. NRows(out) :
                   out.rows[i]["ref_0"] = S.rows[i]["event_id"]

\* ---- C26
\* the ref_0 column of the cached events of node n
CachedRefs(n) ==
    LET events == streams[graph.nodes[n].events].events
    IN [i \in 1 .. NRows(events) |-> events.rows[i]["ref_0"]]
\* the ref column the current processor of node n gives on the source
CurrentRefs(n) ==
    LET frame == CutPathBeforeEventFrame(streams["s1"],
                    graph.nodes[n].processor[2].cutoff_events,
                    graph.nodes[n].processor[2].cut_shift,
                    graph.nodes[n].processor[2].min_cjm)
    IN [i \in 1 .. NRows(frame) |-> frame.rows[i]["ref"]]
====
